---------------------------- MODULE Spec2Model ----------------------------
(***************************************************************************)
(* Model of the Risk & Backtest Analytics Engine of usdt-arbitrage-bot:    *)
(*   src/optimization-tools/p2p_strategy_optimizer.py  (P2PStrategyOptimizer) *)
(*   src/optimization-tools/risk_portfolio_optimizer.py (RiskPortfolioOptimizer) *)
(*                                                                         *)
(* Numbers.  The backtester's floats are modelled in fixed point: money in *)
(* paise (1/100 INR), prices in whole INR, position_size_pct in units of   *)
(* 1/200, roi in basis points (1/100 of a percent), ratios in 1/100 and    *)
(* sweep scores in 1/1000.  The risk module's floats are modelled as exact *)
(* rationals extended with the IEEE-754 values NaN, +inf and -inf, so that *)
(* 0/0 and x/0 behave as numpy makes them behave.                          *)
(***************************************************************************)
EXTENDS Integers, Sequences, FiniteSets, TLC

VARIABLES
    pc,                 \* position of the backtest: "idle", "loop", "done"
    data,               \* the caller's snapshots (rows of the DataFrame)
    config,             \* the configuration passed to backtest_strategy
    i,                  \* rows of data processed so far (the loop index)
    capital,            \* local `capital` of backtest_strategy
    max_position_size,  \* local `max_position_size` of backtest_strategy
    trades,             \* local `trades` of backtest_strategy
    result,             \* value returned by backtest_strategy
    run,                \* number of the run on this optimizer object (1, 2)
    first_result,       \* what run 1 returned, kept by the caller
    current_config,     \* self.current_config of the optimizer object
    sweep,              \* which sweep is running: "threshold" or "position"
    grid_i,             \* grid points of the sweep evaluated so far
    results,            \* local `results` of the sweep
    ret,                \* value returned by a sweep or by the report
    exc,                \* exception that left the operation, or "none"
    call,               \* the risk optimizer's function being called, with its arguments
    out,                \* what that call returned, or the exception it raised
    rng,                \* numpy's global random generator: the seed the caller set and its state
    mc_log              \* the Monte Carlo calls made in this process, with what they returned

btVars == <<config, i, capital, max_position_size, trades, result,
            run, first_result>>

swVars == <<current_config, sweep, grid_i, results, ret, exc>>

rkVars == <<call, out>>

mcVars == <<rng, mc_log>>

vars == <<pc, data, btVars, swVars, rkVars, mcVars>>

-----------------------------------------------------------------------------
(* Bounds of the model *)

\* longest snapshot sequence
MaxLen == 3

\* longest return series handed to the risk functions
MaxSeries == 3

\* longest trade history handed to the position sizing rules
MaxHist == 3

\* Monte Carlo calls made in one process
MaxCalls == 2

\* rows (observations) of a returns matrix handed to the allocator
MatrixRows == 2

-----------------------------------------------------------------------------
(* Arithmetic helpers *)

Abs(x) == IF x < 0 THEN 0 - x ELSE x

\* Python's built-in min(a, b) and max(a, b) on two numbers
Min(a, b) == IF b < a THEN b ELSE a

Max(a, b) == IF b > a THEN b ELSE a

RECURSIVE SumSeq(_)
SumSeq(s) == IF s = <<>> THEN 0 ELSE Head(s) + SumSeq(Tail(s))

RECURSIVE SeqsUpTo(_, _)
\* all sequences over S of length 0..n
SeqsUpTo(S, n) ==
    IF n = 0 THEN {<<>>}
    ELSE LET shorter == SeqsUpTo(S, n - 1)
         IN  shorter \cup {Append(s, x) : s \in {t \in shorter : Len(t) = n - 1}, x \in S}

-----------------------------------------------------------------------------
(* P2PStrategyOptimizer.__init__ *)

\* self.fees['zebpay']: trading_fee 0.0025 as 25/10000, withdrawal_fee 8 USDT
ZebpayFees == [trading_fee_num |-> 25, trading_fee_den |-> 10000, withdrawal_fee |-> 8]

\* self.fees['taxes']['tds'] = 0.01, as a percentage
TdsPct == 1

\* self.current_config; money in paise, position_size_pct in 1/200
CurrentConfig ==
    [min_profit_threshold |-> 100 * 100,
     max_trade_amount     |-> 10000 * 100,
     min_trade_amount     |-> 1000 * 100,
     position_size_pct    |-> 20]

-----------------------------------------------------------------------------
(* Cost & profit model.  amount_usdt is the float trade_value / buy_price; *)
(* it is carried as the pair <<numerator, denominator>>.                   *)

CalculateTransactionCosts(amount_usdt, buy_price) ==
    LET investment         == (buy_price * amount_usdt[1]) \div amount_usdt[2]
        trading_fee        == (investment * ZebpayFees.trading_fee_num)
                                  \div ZebpayFees.trading_fee_den
        total_investment   == investment + trading_fee
        withdrawal_fee_inr == ZebpayFees.withdrawal_fee * buy_price * 100
    IN  [investment     |-> total_investment,
         trading_fee    |-> trading_fee,
         withdrawal_fee |-> withdrawal_fee_inr,
         total_costs    |-> total_investment + withdrawal_fee_inr]

\* mutant: the return on the full cost of the trade, withdrawal fee included
CalculateProfitOnTotalCosts(buy_price, sell_price, amount_usdt) ==
    LET costs         == CalculateTransactionCosts(amount_usdt, buy_price)
        gross_revenue == (sell_price * amount_usdt[1]) \div amount_usdt[2]
        tds           == (gross_revenue * TdsPct) \div 100
        net_revenue   == gross_revenue - tds
        net_profit    == net_revenue - costs.total_costs
    IN  [gross_revenue |-> gross_revenue,
         net_revenue   |-> net_revenue,
         net_profit    |-> net_profit,
         roi           |-> (net_profit * 10000) \div costs.total_costs,
         total_costs   |-> costs.total_costs,
         profitable    |-> net_profit > 0]

CalculateProfit(buy_price, sell_price, amount_usdt) ==
    LET costs         == CalculateTransactionCosts(amount_usdt, buy_price)
        gross_revenue == (sell_price * amount_usdt[1]) \div amount_usdt[2]
        tds           == (gross_revenue * TdsPct) \div 100
        net_revenue   == gross_revenue - tds
        net_profit    == net_revenue - costs.total_costs
    IN  [gross_revenue |-> gross_revenue,
         net_revenue   |-> net_revenue,
         net_profit    |-> net_profit,
         roi           |-> (net_profit * 10000) \div costs.investment,
         total_costs   |-> costs.total_costs,
         profitable    |-> net_profit > 0]

-----------------------------------------------------------------------------
(* backtest_strategy: the body of one loop iteration *)

\* mutant: capital kept on the optimizer object and never reset between calls
StartCapitalCarried == IF run >= 1 THEN capital ELSE 100000 * 100

\* capital = 100000 at the top of every call (paise)
StartCapital == 100000 * 100

\* max_position_size = capital * config['position_size_pct']
PositionSizeCap(cap, cfg) == (cap * cfg.position_size_pct) \div 200

\* mutant: the second statement (the minimum trade amount) left out
TradeValueNoFloor(maxPos, cfg) == Min(maxPos, cfg.max_trade_amount)

\* trade_value = min(max_position_size, max_trade_amount);
\* trade_value = max(trade_value, min_trade_amount)
TradeValue(maxPos, cfg) ==
    Max(Min(maxPos, cfg.max_trade_amount), cfg.min_trade_amount)

\* profit_analysis of the row, for the current max_position_size
ProfitAnalysis(row, maxPos, cfg) ==
    CalculateProfit(row.zebpay_price, row.p2p_express_price,
                    <<TradeValue(maxPos, cfg), row.zebpay_price>>)

\* mutant: the second condition (profit_analysis['profitable']) left out
MeetsCriteriaThresholdOnly(pa, cfg) ==
    pa.net_profit >= cfg.min_profit_threshold

\* mutant: the threshold compared with <= instead of >=
MeetsCriteriaReversed(pa, cfg) ==
    /\ pa.net_profit <= cfg.min_profit_threshold
    /\ pa.profitable

\* mutant: the threshold compared with > instead of >=
MeetsCriteriaStrict(pa, cfg) ==
    pa.net_profit > cfg.min_profit_threshold /\ pa.profitable

\* the `if` that decides whether the row becomes a trade
MeetsCriteria(pa, cfg) ==
    pa.net_profit >= cfg.min_profit_threshold /\ pa.profitable

\* the trade dict appended for a row that meets the criteria
TradeOf(row, maxPos, cfg) ==
    LET pa == ProfitAnalysis(row, maxPos, cfg)
    IN  [timestamp   |-> row.timestamp,
         buy_price   |-> row.zebpay_price,
         sell_price  |-> row.p2p_express_price,
         amount_usdt |-> <<TradeValue(maxPos, cfg), row.zebpay_price>>,
         investment  |-> TradeValue(maxPos, cfg),
         profit      |-> pa.net_profit,
         roi         |-> pa.roi]

\* mutant: a qualifying row is appended twice
BacktestIterationTwice(st_in, row, cfg) ==
    LET Body(st) ==
            LET pa == ProfitAnalysis(row, st.max_position_size, cfg)
                tr == TradeOf(row, st.max_position_size, cfg)
            IN  IF MeetsCriteria(pa, cfg)
                THEN [capital           |-> st.capital + pa.net_profit,
                      max_position_size |-> PositionSizeCap(st.capital + pa.net_profit, cfg),
                      trades            |-> Append(Append(st.trades, tr), tr)]
                ELSE st
    IN  CHOOSE r \in {Body(st) : st \in {st_in}} : TRUE

\* one iteration of the for loop on the local state [capital,
\* max_position_size, trades].  (The state is bound once, by CHOOSE over a
\* singleton, so that a chain of iterations is evaluated once per row.)
BacktestIteration(st_in, row, cfg) ==
    LET Body(st) ==
            LET pa == ProfitAnalysis(row, st.max_position_size, cfg)
            IN  IF MeetsCriteria(pa, cfg)
                THEN [capital           |-> st.capital + pa.net_profit,
                      max_position_size |-> PositionSizeCap(st.capital + pa.net_profit, cfg),
                      trades            |-> Append(st.trades,
                                               TradeOf(row, st.max_position_size, cfg))]
                ELSE st
    IN  CHOOSE r \in {Body(st) : st \in {st_in}} : TRUE

-----------------------------------------------------------------------------
(* Floats of the analytics: exact rationals n/d (d > 0, lowest terms) and  *)
(* the IEEE-754 values NaN, +inf, -inf.                                    *)

RECURSIVE GCD(_, _)
GCD(a, b) == IF b = 0 THEN a ELSE GCD(b, a % b)

Fin(n, d) ==
    LET g == GCD(Abs(n), Abs(d))
        s == IF d < 0 THEN 0 - 1 ELSE 1
    IN  [k |-> "fin", n |-> (s * n) \div g, d |-> (s * d) \div g]

NaN == [k |-> "nan", n |-> 0, d |-> 1]

PInf == [k |-> "pinf", n |-> 0, d |-> 1]

NInf == [k |-> "ninf", n |-> 0, d |-> 1]

IsFin(x) == x.k = "fin"

IsNaN(x) == x.k = "nan"

\* -1, 0, 1: the sign of a value that is not NaN
Sign(x) ==
    CASE x.k = "pinf" -> 1
      [] x.k = "ninf" -> 0 - 1
      [] OTHER -> IF x.n > 0 THEN 1 ELSE IF x.n < 0 THEN 0 - 1 ELSE 0

Signed(s) == IF s > 0 THEN PInf ELSE IF s < 0 THEN NInf ELSE NaN

FNeg(x) ==
    CASE x.k = "fin" -> Fin(0 - x.n, x.d)
      [] x.k = "pinf" -> NInf
      [] x.k = "ninf" -> PInf
      [] OTHER -> NaN

FAbs(x) == IF IsNaN(x) THEN NaN ELSE IF Sign(x) < 0 THEN FNeg(x) ELSE x

FAdd(x, y) ==
    IF IsNaN(x) \/ IsNaN(y) THEN NaN
    ELSE IF IsFin(x) /\ IsFin(y)
         THEN LET g == GCD(x.d, y.d)
              IN  Fin(x.n * (y.d \div g) + y.n * (x.d \div g), (x.d \div g) * y.d)
    ELSE IF IsFin(x) THEN y
    ELSE IF IsFin(y) THEN x
    ELSE IF x.k = y.k THEN x ELSE NaN

FSub(x, y) == FAdd(x, FNeg(y))

FMul(x, y) ==
    IF IsNaN(x) \/ IsNaN(y) THEN NaN
    ELSE IF IsFin(x) /\ IsFin(y)
         THEN LET g == GCD(Abs(x.n), y.d)
                  h == GCD(Abs(y.n), x.d)
              IN  Fin((x.n \div g) * (y.n \div h), (x.d \div h) * (y.d \div g))
    ELSE Signed(Sign(x) * Sign(y))

\* numpy float division: x/0 is +-inf, 0/0 and inf/inf are NaN, nothing raises
FDiv(x, y) ==
    IF IsNaN(x) \/ IsNaN(y) THEN NaN
    ELSE IF IsFin(x) /\ IsFin(y)
         THEN IF y.n = 0 THEN Signed(Sign(x)) ELSE Fin(x.n * y.d, x.d * y.n)
    ELSE IF IsFin(x) THEN Fin(0, 1)
    ELSE IF IsFin(y) THEN Signed(Sign(x) * (IF Sign(y) < 0 THEN 0 - 1 ELSE 1))
    ELSE NaN

\* x < y as IEEE compares: FALSE whenever a NaN is involved
FLt(x, y) ==
    IF IsNaN(x) \/ IsNaN(y) THEN FALSE
    ELSE IF IsFin(x) /\ IsFin(y)
         THEN LET g == GCD(x.d, y.d)
              IN  x.n * (y.d \div g) < y.n * (x.d \div g)
    ELSE IF x.k = y.k THEN FALSE
    ELSE x.k = "ninf" \/ y.k = "pinf"

FEq(x, y) == ~IsNaN(x) /\ ~IsNaN(y) /\ ~FLt(x, y) /\ ~FLt(y, x)

FLe(x, y) == FLt(x, y) \/ FEq(x, y)

RECURSIVE ISqrtBetween(_, _, _)
ISqrtBetween(n, lo, hi) ==
    IF lo >= hi THEN lo
    ELSE CHOOSE r \in {IF mid * mid <= n THEN ISqrtBetween(n, mid, hi)
                       ELSE ISqrtBetween(n, lo, mid - 1) :
                          mid \in {(lo + hi + 1) \div 2}} : TRUE

\* floor of the square root of n >= 0
ISqrt(n) == ISqrtBetween(n, 0, Min(n, 46340))

RECURSIVE FSum(_)
FSum(s) == IF s = <<>> THEN Fin(0, 1) ELSE FAdd(Head(s), FSum(Tail(s)))

\* np.mean / Series.mean of the entries given: 0/0 = NaN when there is none
FMean(s) == FDiv(FSum(s), Fin(Len(s), 1))

\* decimal digits kept by the square root: sqrt(x) is computed to 1/SqrtScale
SqrtScale == 100

\* np.sqrt on a float, rounded down to a multiple of 1/SqrtScale; a
\* positive value never rounds to 0
FSqrt(x) ==
    IF IsNaN(x) THEN NaN
    ELSE IF ~IsFin(x) THEN (IF x.k = "pinf" THEN PInf ELSE NaN)
    ELSE IF x.n < 0 THEN NaN
    ELSE IF x.n = 0 THEN Fin(0, 1)
    ELSE LET whole == x.n \div x.d
             k     == x.d \div 150000 + 1
             frac  == (((x.n % x.d) \div k) * SqrtScale * SqrtScale) \div (x.d \div k)
         IN  IF whole >= 40000 THEN Fin(ISqrt(whole), 1)
             ELSE Fin(Max(1, ISqrt(whole * SqrtScale * SqrtScale + frac)), SqrtScale)

\* Series.std(): sample standard deviation (ddof = 1), NaN below 2 entries
\* or when an entry is infinite.  The variance is exact.
PdVariance(s) ==
    IF Len(s) < 2 THEN NaN
    ELSE CHOOSE v \in
            {FDiv(FSum([n \in 1..Len(s) |-> FMul(FSub(s[n], m), FSub(s[n], m))]),
                  Fin(Len(s) - 1, 1)) : m \in {FMean(s)}} : TRUE

PdStd(s) == FSqrt(PdVariance(s))

-----------------------------------------------------------------------------
(* Series helpers (pandas / numpy) *)

\* Series.cumsum()
CumSum(s) == [k \in 1..Len(s) |-> SumSeq(SubSeq(s, 1, k))]

RECURSIVE MaxOfSeq(_)
MaxOfSeq(s) == IF Len(s) = 1 THEN s[1] ELSE Max(MaxOfSeq(SubSeq(s, 1, Len(s) - 1)), s[Len(s)])

\* Series.expanding().max() on integers
ExpandingMax(s) == [k \in 1..Len(s) |-> MaxOfSeq(SubSeq(s, 1, k))]

RECURSIVE FMinSkipNaN(_)
\* the least non-NaN element, NaN when there is none
FMinSkipNaN(s) ==
    IF s = <<>> THEN NaN
    ELSE CHOOSE r \in
            {IF IsNaN(Head(s)) THEN rest
             ELSE IF IsNaN(rest) THEN Head(s)
             ELSE IF FLt(rest, Head(s)) THEN rest ELSE Head(s) :
                rest \in {FMinSkipNaN(Tail(s))}} : TRUE

\* pandas Series.min(): NaN entries are skipped
PdMin(s) == FMinSkipNaN(s)

\* numpy ndarray.min(): a NaN entry makes the result NaN
NpMin(s) == IF \E k \in 1..Len(s) : IsNaN(s[k]) THEN NaN ELSE FMinSkipNaN(s)

-----------------------------------------------------------------------------
(* analyze_backtest_results and calculate_max_drawdown *)

\* P2PStrategyOptimizer.calculate_max_drawdown on a cumulative series of
\* integers: (cumulative - peak) / peak, its pandas minimum, times 100
\* (peak, drawdown and the minimum are each bound once, by CHOOSE over a
\* singleton)
CalculateMaxDrawdownPd(cumulative_returns) ==
    LET Drawdown(c, peak) ==
            [k \in 1..Len(c) |-> FDiv(Fin(c[k] - peak[k], 1), Fin(peak[k], 1))]
        Least(c) ==
            CHOOSE m \in {PdMin(drawdown) :
                            drawdown \in {Drawdown(c, peak) :
                                             peak \in {ExpandingMax(c)}}} : TRUE
    IN  CHOOSE r \in {FMul(m, Fin(100, 1)) :
                        m \in {Least(c) : c \in {cumulative_returns}}} : TRUE

\* np.mean(returns) / np.std(returns) * np.sqrt(252) if np.std(returns) > 0
\* else 0, in 1/100; rois are the trades' roi in basis points.  With
\* S the sum and Q the sum of squares, mean/std = S / sqrt(n*Q - S*S).
SharpeOfRois(rois) ==
    LET n == Len(rois)
        Q(r) == SumSeq([k \in 1..n |-> r[k] * r[k]])
    IN  CHOOSE v \in {IF D > 0 THEN (1587 * S * 10) \div ISqrt(100 * D) ELSE 0 :
                        S \in {SumSeq(rois)}, D \in {n * Q(rois) - SumSeq(rois) * SumSeq(rois)}} :
            TRUE

AnalyzeBacktestResults(trs, final_capital) ==
    IF trs = <<>> THEN [error |-> "No profitable trades found"]
    ELSE LET profits == [k \in 1..Len(trs) |-> trs[k].profit]
             wins    == Cardinality({k \in 1..Len(trs) : trs[k].profit > 0})
         IN  [total_trades         |-> Len(trs),
              total_profit         |-> SumSeq(profits),
              avg_profit_per_trade |-> SumSeq(profits) \div Len(trs),
              win_rate             |-> (wins * 100) \div Len(trs),
              sharpe_ratio         |-> SharpeOfRois([k \in 1..Len(trs) |-> trs[k].roi]),
              max_drawdown         |-> CalculateMaxDrawdownPd(CumSum(profits)),
              final_capital        |-> final_capital,
              \* ((final_capital - 100000) / 100000) * 100, in 1/100000 of a percent
              total_return         |-> final_capital - 100000 * 100,
              trades_df            |-> trs]

IsError(res) == "error" \in DOMAIN res

-----------------------------------------------------------------------------
(* Inputs of the model *)

\* (zebpay_price, p2p_express_price) of a snapshot, whole INR.  At a trade
\* value of 10000 INR: 86 loses 22.50, 88 earns exactly 225.00, 95 earns
\* 1091.25; at 5000 INR only 95 earns (225.62).
PricePairs == {<<80, 86>>, <<80, 88>>, <<80, 95>>}

\* a DataFrame: rows in positional order; timestamps ascending, descending,
\* or out of order (the first two rows exchanged: 2, 1, 3, ...)
Frame(prices, order) ==
    [k \in 1..Len(prices) |->
        [timestamp         |-> IF order = "asc" \/ Len(prices) = 1 THEN k
                               ELSE IF order = "desc" THEN Len(prices) + 1 - k
                               ELSE IF k <= 2 THEN 3 - k ELSE k,
         zebpay_price      |-> prices[k][1],
         p2p_express_price |-> prices[k][2]]]

DataSets ==
    {Frame(p, o) : p \in SeqsUpTo(PricePairs, MaxLen), o \in {"asc", "desc", "mixed"}}

\* configurations handed to backtest_strategy
Configs ==
    {[min_profit_threshold |-> t * 100,
      max_trade_amount     |-> mm[2] * 100,
      min_trade_amount     |-> mm[1] * 100,
      position_size_pct    |-> p] :
        t \in {0 - 50, 100, 225}, p \in {1, 10, 20, 40},
        mm \in {<<1000, 10000>>, <<8000, 5000>>}}

-----------------------------------------------------------------------------
(* backtest_strategy as a state machine *)

NoResult == [none |-> TRUE]

Init ==
    /\ pc = "idle"
    /\ data = <<>>
    /\ current_config = CurrentConfig
    /\ sweep = "none"
    /\ grid_i = 0
    /\ results = <<>>
    /\ ret = NoResult
    /\ exc = "none"
        /\ call = NoResult /\ out = NoResult
    /\ rng = [seed |-> 0 - 1, x |-> 0 - 1] /\ mc_log = <<>>

    /\ out = NoResult
    /\ config = CurrentConfig
    /\ i = 0
    /\ capital = 0
    /\ max_position_size = 0
    /\ trades = <<>>
    /\ result = NoResult
    /\ run = 0
    /\ first_result = NoResult

\* lines 148-150: the locals at the top of a call
EnterBacktest(d, c) ==
    /\ data' = d
    /\ config' = c
    /\ i' = 0
    /\ trades' = <<>>
    /\ capital' = StartCapital
    /\ max_position_size' = PositionSizeCap(StartCapital, c)
    /\ result' = NoResult
    /\ pc' = "loop"

\* the caller calls backtest_strategy(data, config)
BacktestCall ==
    /\ pc = "idle"
    /\ \E d \in DataSets, c \in Configs : EnterBacktest(d, c)
    /\ run' = 1
    /\ UNCHANGED <<first_result, swVars, rkVars, mcVars, mcVars>>

\* one iteration of `for i in range(len(data))`
BacktestStep ==
    /\ pc = "loop"
    /\ i < Len(data)
    /\ LET st == BacktestIteration(
                    [capital |-> capital, max_position_size |-> max_position_size,
                     trades |-> trades], data[i + 1], config)
       IN  /\ capital' = st.capital
           /\ max_position_size' = st.max_position_size
           /\ trades' = st.trades
    /\ i' = i + 1
    /\ UNCHANGED <<pc, data, config, result, run, first_result, swVars, rkVars, mcVars, mcVars>>

\* return self.analyze_backtest_results(trades, capital)
BacktestReturn ==
    /\ pc = "loop"
    /\ i = Len(data)
    /\ result' = AnalyzeBacktestResults(trades, capital)
    /\ pc' = "done"
    /\ UNCHANGED <<data, config, i, capital, max_position_size, trades, run, first_result,
                   swVars, rkVars, mcVars>>

\* the caller keeps the result and calls again on the same optimizer object
\* with the same data and configuration
BacktestAgain ==
    /\ pc = "done"
    /\ run = 1
    /\ first_result' = result
    /\ run' = 2
    /\ EnterBacktest(data, config)
    /\ UNCHANGED <<swVars, rkVars, mcVars, mcVars>>

NextBacktest == BacktestCall \/ BacktestStep \/ BacktestReturn \/ BacktestAgain

SpecBacktest == Init /\ [][NextBacktest]_vars

-----------------------------------------------------------------------------
(* Claims about backtest_strategy *)

\* C1: every loop iteration emits a trade if and only if the row's net
\* profit is >= min_profit_threshold and > 0; an emitted trade is appended,
\* capital grows by exactly that net profit and max_position_size becomes
\* capital * position_size_pct; otherwise capital, the cap and the trade
\* list are unchanged.
C1_TradeIffCriteria ==
    [][(pc = "loop" /\ i' = i + 1) =>
        LET row  == data[i + 1]
            tv   == Max(Min(max_position_size, config.max_trade_amount),
                        config.min_trade_amount)
            np   == CalculateProfit(row.zebpay_price, row.p2p_express_price,
                                    <<tv, row.zebpay_price>>).net_profit
            emit == np >= config.min_profit_threshold /\ np > 0
        IN  IF emit
            THEN /\ Len(trades') = Len(trades) + 1
                 /\ SubSeq(trades', 1, Len(trades)) = trades
                 /\ trades'[Len(trades')].profit = np
                 /\ trades'[Len(trades')].timestamp = row.timestamp
                 /\ capital' = capital + np
                 /\ max_position_size' = (capital' * config.position_size_pct) \div 200
            ELSE /\ trades' = trades
                 /\ capital' = capital
                 /\ max_position_size' = max_position_size]_vars

\* C1 witness: a run that has both emitted a trade at exactly the threshold
\* and skipped a row
C1_Witness ==
    /\ pc = "loop"
    /\ Len(trades) >= 1
    /\ i > Len(trades)
    /\ trades[1].profit = config.min_profit_threshold
    /\ capital = StartCapital + trades[1].profit

\* C2: a second run on the same optimizer object over the same snapshots
\* with the same configuration returns the same trades and final capital
\* (the whole result) as the first.
C2_Deterministic ==
    (pc = "done" /\ run = 2) => result = first_result

\* C2 witness: a second run that finished with at least two trades
C2_Witness ==
    /\ pc = "done"
    /\ run = 2
    /\ ~IsError(result)
    /\ result.total_trades >= 2
    /\ result.final_capital > 100000 * 100

\* the trade value the next iteration will use
NextTradeValue == TradeValue(max_position_size, config)

\* C3 as claimed: for every configuration the trade value lies in
\* [min_trade_amount, max_trade_amount].
C3_Original ==
    (pc = "loop" /\ i < Len(data)) =>
        /\ NextTradeValue >= config.min_trade_amount
        /\ NextTradeValue <= config.max_trade_amount

\* C3 amended: the trade value is never below min_trade_amount; when
\* min_trade_amount <= max_trade_amount it is never above max_trade_amount
\* and equals the cap whenever the cap lies in the interval.
C3_Amended ==
    (pc = "loop" /\ i < Len(data)) =>
        /\ NextTradeValue >= config.min_trade_amount
        /\ config.min_trade_amount <= config.max_trade_amount =>
              /\ NextTradeValue <= config.max_trade_amount
              /\ (max_position_size >= config.min_trade_amount
                    /\ max_position_size <= config.max_trade_amount)
                        => NextTradeValue = max_position_size
              /\ max_position_size > config.max_trade_amount
                        => NextTradeValue = config.max_trade_amount

\* C3 witness: an ordered configuration whose cap fell below the minimum
\* and was raised to the minimum
C3_Witness ==
    /\ pc = "loop"
    /\ i < Len(data)
    /\ config.min_trade_amount <= config.max_trade_amount
    /\ max_position_size < config.min_trade_amount
    /\ NextTradeValue = config.min_trade_amount

\* the timestamps of a frame never go back from one row to the next
TimestampsOrdered(d) ==
    \A k \in 1..(Len(d) - 1) : d[k].timestamp <= d[k + 1].timestamp

\* C21: when the snapshots passed to backtest_strategy have non-monotonic
\* timestamps the call fails fast with InvalidInputError: the loop never
\* emits a trade from the out-of-order sequence and the call never returns
\* a result.
C21_OutOfOrderRejected ==
    ~TimestampsOrdered(data) => (trades = <<>> /\ pc # "done")

\* C21, what the code does with such a sequence: it is not reordered, every
\* trade carries the timestamp of the row that produced it, in row order
C21_OutOfOrderProcessedInPlace ==
    (pc \in {"loop", "done"} /\ ~TimestampsOrdered(data)) =>
        \E pos \in [1..Len(trades) -> 1..i] :
            /\ \A a \in 1..Len(trades) : trades[a].timestamp = data[pos[a]].timestamp
            /\ \A a \in 1..(Len(trades) - 1) : pos[a] < pos[a + 1]

\* the for loop runs to its end and the call returns: the interpreter
\* keeps executing the loop body and the return statement
SpecBacktestFair ==
    SpecBacktest /\ WF_vars(BacktestStep) /\ WF_vars(BacktestReturn)

\* C24: a backtest run is a single pass: every loop iteration takes the
\* next snapshot in sequence order and adds at most one trade, which is that
\* snapshot's; the trade list is at all times an order-preserving
\* subsequence of the snapshots taken so far; the run returns only after
\* the last snapshot, and every started run returns.
C24_SinglePass ==
    /\ [][/\ (pc = "loop" /\ pc' = "loop" /\ run' = run) =>
              /\ i < Len(data) /\ i' = i + 1
              /\ \/ trades' = trades
                 \/ /\ Len(trades') = Len(trades) + 1
                    /\ SubSeq(trades', 1, Len(trades)) = trades
                    /\ trades'[Len(trades')].timestamp = data[i'].timestamp
          /\ pc' \in {"loop", "done"} =>
              /\ i' <= Len(data')
              /\ pc' = "done" => i' = Len(data')
              /\ \E pos \in [1..Len(trades') -> 1..i'] :
                    /\ \A a \in 1..Len(trades') :
                          /\ trades'[a].timestamp  = data'[pos[a]].timestamp
                          /\ trades'[a].buy_price  = data'[pos[a]].zebpay_price
                          /\ trades'[a].sell_price = data'[pos[a]].p2p_express_price
                    /\ \A a \in 1..(Len(trades') - 1) : pos[a] < pos[a + 1]]_vars
    /\ (pc = "loop" ~> pc = "done")

\* C24 witness: a finished run over three snapshots that made trades of the
\* first and the third and none of the second
C24_Witness ==
    /\ pc = "done"
    /\ Len(data) = 3
    /\ Len(trades) = 2
    /\ trades[1].timestamp = data[1].timestamp
    /\ trades[2].timestamp = data[3].timestamp

-----------------------------------------------------------------------------
(* backtest_strategy as a function, for the operations that call it *)

RECURSIVE BacktestFrom(_, _, _, _)
\* the for loop from row n on
BacktestFrom(st, d, n, cfg) ==
    IF n > Len(d) THEN st
    ELSE BacktestFrom(BacktestIteration(st, d[n], cfg), d, n + 1, cfg)

BacktestStrategy(d, cfg) ==
    LET st0 == [capital           |-> StartCapital,
                max_position_size |-> PositionSizeCap(StartCapital, cfg),
                trades            |-> <<>>]
    IN  CHOOSE r \in {AnalyzeBacktestResults(fin.trades, fin.capital) :
                        fin \in {BacktestFrom(st0, d, 1, cfg)}} : TRUE

-----------------------------------------------------------------------------
(* optimize_profit_threshold and optimize_position_sizing *)

\* thresholds = np.arange(50, 500, 25), in paise
Thresholds == [n \in 1..18 |-> (50 + 25 * (n - 1)) * 100]

\* position_sizes = np.arange(0.05, 0.30, 0.025), in 1/200
PositionSizes == [n \in 1..10 |-> 10 + 5 * (n - 1)]

Grid(kind) == IF kind = "threshold" THEN Thresholds ELSE PositionSizes

\* config = self.current_config.copy(); config[<swept key>] = value
GridConfig(kind, cc, v) ==
    IF kind = "threshold" THEN [cc EXCEPT !.min_profit_threshold = v]
    ELSE [cc EXCEPT !.position_size_pct = v]

\* the keys of backtest_result a sweep subscripts when it builds a row
RowKeys(kind) ==
    IF kind = "threshold" THEN {"total_profit", "total_trades", "sharpe_ratio", "win_rate"}
    ELSE {"total_return", "sharpe_ratio", "max_drawdown", "total_trades"}

\* a subscript of a missing key raises KeyError
RaisesKeyError(res, keys) == \E key \in keys : key \notin DOMAIN res

\* mutant: the result is used without looking for 'error'
SweepAcceptsAll(res) == TRUE

\* if 'error' not in backtest_result
SweepAccepts(res) == ~IsError(res)

\* the dict appended to results
SweepRow(kind, v, res) ==
    IF kind = "threshold"
    THEN [grid_value   |-> v,
          total_profit |-> res.total_profit,
          total_trades |-> res.total_trades,
          sharpe_ratio |-> res.sharpe_ratio,
          win_rate     |-> res.win_rate]
    ELSE [grid_value   |-> v,
          total_return |-> res.total_return,
          sharpe_ratio |-> res.sharpe_ratio,
          max_drawdown |-> res.max_drawdown,
          total_trades |-> res.total_trades]

\* one iteration of a sweep's for loop: [raised, results]
SweepIteration(kind, d, cc, rows, v) ==
    CHOOSE r \in
        {IF ~SweepAccepts(res) THEN [raised |-> "none", results |-> rows]
         ELSE IF RaisesKeyError(res, RowKeys(kind))
              THEN [raised |-> "KeyError", results |-> rows]
         ELSE [raised |-> "none", results |-> Append(rows, SweepRow(kind, v, res))] :
            res \in {BacktestStrategy(d, GridConfig(kind, cc, v))}} : TRUE

\* df_results['score'] (threshold sweep), in 1/1000:
\* sharpe_ratio * 0.4 + total_profit / total_profit.max() * 0.3 + win_rate / 100 * 0.3
ThresholdScore(row, rows) ==
    LET maxp == MaxOfSeq([n \in 1..Len(rows) |-> rows[n].total_profit])
    IN  IF maxp = 0 THEN FDiv(Fin(row.total_profit, 1), Fin(0, 1))
        ELSE Fin(4 * row.sharpe_ratio + (300 * row.total_profit) \div maxp
                    + 3 * row.win_rate, 1)

\* df_results['risk_adjusted_return'] (position sweep):
\* total_return / (abs(max_drawdown) + 1)
PositionScore(row) ==
    FDiv(Fin(row.total_return, 1), FAdd(FAbs(row.max_drawdown), Fin(1, 1)))

Scores(kind, rows) ==
    [n \in 1..Len(rows) |->
        IF kind = "threshold" THEN ThresholdScore(rows[n], rows) ELSE PositionScore(rows[n])]

\* mutant: the last row holding the maximum
IdxMaxLast(scores) ==
    LET valid == {n \in 1..Len(scores) : ~IsNaN(scores[n])}
        best  == {n \in valid : \A m \in valid : ~FLt(scores[n], scores[m])}
    IN  IF best = {} THEN 0 ELSE CHOOSE n \in best : \A m \in best : m <= n

\* Series.idxmax(): the first row holding the maximum, NaN rows skipped;
\* 0 stands for "no row" (every score NaN)
IdxMax(scores) ==
    LET valid == {n \in 1..Len(scores) : ~IsNaN(scores[n])}
        best  == {n \in valid : \A m \in valid : ~FLt(scores[n], scores[m])}
    IN  IF best = {} THEN 0 ELSE CHOOSE n \in best : \A m \in best : n <= m

\* the literals returned when results is empty: `return 100, {}` and
\* `return 0.10, {}`
SweepFallback(kind) == IF kind = "threshold" THEN 100 * 100 ELSE 20

\* the statements after a sweep's for loop: [raised, optimal, df_results]
SweepFinish(kind, rows) ==
    IF rows = <<>>
    THEN [raised |-> "none", optimal |-> SweepFallback(kind),
          df_results |-> [type |-> "dict", rows |-> <<>>]]
    ELSE LET scores == Scores(kind, rows)
             scored == [n \in 1..Len(rows) |-> [row |-> rows[n], score |-> scores[n]]]
             best   == IdxMax(scores)
         IN  IF best = 0
             THEN [raised |-> "KeyError", optimal |-> 0,
                   df_results |-> [type |-> "DataFrame", rows |-> scored]]
             ELSE [raised |-> "none", optimal |-> rows[best].grid_value,
                   df_results |-> [type |-> "DataFrame", rows |-> scored]]

RECURSIVE SweepFrom(_, _, _, _, _)
\* a sweep's for loop from grid point n on: [raised, results]
SweepFrom(kind, d, cc, rows, n) ==
    IF n > Len(Grid(kind)) THEN [raised |-> "none", results |-> rows]
    ELSE CHOOSE r \in
            {IF it.raised # "none" THEN it
             ELSE SweepFrom(kind, d, cc, it.results, n + 1) :
                it \in {SweepIteration(kind, d, cc, rows, Grid(kind)[n])}} : TRUE

\* optimize_profit_threshold / optimize_position_sizing as functions
OptimizeSweep(kind, d, cc) ==
    LET loop == SweepFrom(kind, d, cc, <<>>, 1)
    IN  IF loop.raised # "none"
        THEN [raised |-> loop.raised, optimal |-> 0,
              df_results |-> [type |-> "dict", rows |-> <<>>]]
        ELSE SweepFinish(kind, loop.results)

\* values a caller may have assigned to optimizer.current_config
CurrentConfigs ==
    {CurrentConfig,
     [CurrentConfig EXCEPT !.min_profit_threshold = 150 * 100, !.position_size_pct = 10]}

\* the caller assigns self.current_config (a public attribute)
SetCurrentConfig ==
    /\ pc = "idle"
    /\ \E cc \in CurrentConfigs \ {current_config} : current_config' = cc
    /\ UNCHANGED <<pc, data, btVars, rkVars, mcVars, sweep, grid_i, results, ret, exc>>

\* the caller calls optimize_profit_threshold(data) or optimize_position_sizing(data)
SweepCall ==
    /\ pc = "idle"
    /\ \E d \in DataSets : data' = d
    /\ \E kind \in {"threshold", "position"} : sweep' = kind
    /\ grid_i' = 0
    /\ results' = <<>>
    /\ pc' = "sweep"
    /\ UNCHANGED <<btVars, rkVars, mcVars, current_config, ret, exc>>

\* one grid point: copy the configuration, run the backtest, keep the row
SweepStep ==
    /\ pc = "sweep"
    /\ grid_i < Len(Grid(sweep))
    /\ LET it == SweepIteration(sweep, data, current_config, results,
                                Grid(sweep)[grid_i + 1])
       IN  /\ results' = it.results
           /\ exc' = it.raised
           /\ pc' = IF it.raised = "none" THEN "sweep" ELSE "raised"
    /\ grid_i' = grid_i + 1
    /\ UNCHANGED <<data, btVars, rkVars, mcVars, current_config, sweep, ret>>

\* score the rows and return the optimum
SweepReturn ==
    /\ pc = "sweep"
    /\ grid_i = Len(Grid(sweep))
    /\ LET fin == SweepFinish(sweep, results)
       IN  /\ ret' = [optimal |-> fin.optimal, df_results |-> fin.df_results]
           /\ exc' = fin.raised
           /\ pc' = IF fin.raised = "none" THEN "sweep_done" ELSE "raised"
    /\ UNCHANGED <<data, btVars, rkVars, mcVars, current_config, sweep, grid_i, results>>

NextSweep == SetCurrentConfig \/ SweepCall \/ SweepStep \/ SweepReturn

SpecSweep == Init /\ [][NextSweep]_vars

-----------------------------------------------------------------------------
(* Claims about the sweeps *)

\* the scored rows of the table a finished sweep returned
ReturnedRows == ret.df_results.rows

\* C4: a sweep that evaluated at least one grid point with trades returns
\* the grid value of a row whose score is the maximum of all rows, and no
\* row with that maximum score has a smaller grid value (lower grid index).
C4_FirstMaximum ==
    (pc = "sweep_done" /\ results # <<>>) =>
        /\ Len(ReturnedRows) = Len(results)
        /\ \E b \in 1..Len(ReturnedRows) :
              /\ ReturnedRows[b].row.grid_value = ret.optimal
              /\ ReturnedRows[b].row.grid_value \in
                    {Grid(sweep)[n] : n \in 1..Len(Grid(sweep))}
              /\ \A n \in 1..Len(ReturnedRows) :
                    /\ FLe(ReturnedRows[n].score, ReturnedRows[b].score)
                    /\ FEq(ReturnedRows[n].score, ReturnedRows[b].score)
                          => ReturnedRows[n].row.grid_value >= ret.optimal

\* C4 witness: a finished sweep in which two rows tie at the maximum and a
\* third row scores less
C4_Witness ==
    /\ pc = "sweep_done"
    /\ Len(results) >= 3
    /\ \E a, b, c \in 1..Len(ReturnedRows) :
          /\ a < b
          /\ ReturnedRows[a].row.grid_value = ret.optimal
          /\ FEq(ReturnedRows[a].score, ReturnedRows[b].score)
          /\ FLt(ReturnedRows[c].score, ReturnedRows[a].score)

\* the value current_config holds for the key a sweep varies
CurrentValue(kind) ==
    IF kind = "threshold" THEN current_config.min_profit_threshold
    ELSE current_config.position_size_pct

\* C5: a sweep in which no grid point yields trades returns the value held
\* in current_config, whatever it currently is, and marks the result as
\* inconclusive (here: hands back the empty dict in place of the table).
C5_ReturnsCurrentConfig ==
    (pc = "sweep_done" /\ results = <<>>) =>
        /\ ret.optimal = CurrentValue(sweep)
        /\ ret.df_results.type = "dict"

-----------------------------------------------------------------------------
(* create_adaptive_strategy and generate_performance_report *)

\* dict.get(key, default)
DictGet(res, key, default) == IF key \in DOMAIN res THEN res[key] ELSE default

\* the three `strategies` of create_adaptive_strategy (threshold in paise,
\* position_size_pct in 1/200)
AdaptiveStrategies ==
    [low_volatility    |-> [min_profit_threshold |-> 75 * 100,  position_size_pct |-> 30],
     medium_volatility |-> [min_profit_threshold |-> 100 * 100, position_size_pct |-> 20],
     high_volatility   |-> [min_profit_threshold |-> 150 * 100, position_size_pct |-> 16]]

\* config_full = self.current_config.copy(); config_full.update(config)
AdaptiveConfig(cc, regime) ==
    [cc EXCEPT !.min_profit_threshold = AdaptiveStrategies[regime].min_profit_threshold,
               !.position_size_pct    = AdaptiveStrategies[regime].position_size_pct]

\* data['returns'].rolling(window=24)
RollingWindow == 24

\* the caller's DataFrame after the two column assignments at the top of
\* create_adaptive_strategy:
\*   data['returns']    = data['zebpay_price'].pct_change()
\*   data['volatility'] = data['returns'].rolling(window=24).std()
\* (a window holding fewer than 24 numbers gives NaN, and row 1 of
\* 'returns' is NaN)
AddVolatilityColumns(d) ==
    LET returns == [k \in 1..Len(d) |->
                       IF k = 1 THEN NaN
                       ELSE FSub(FDiv(Fin(d[k].zebpay_price, 1),
                                      Fin(d[k - 1].zebpay_price, 1)), Fin(1, 1))]
    IN  [k \in 1..Len(d) |->
            [timestamp         |-> d[k].timestamp,
             zebpay_price      |-> d[k].zebpay_price,
             p2p_express_price |-> d[k].p2p_express_price,
             returns           |-> returns[k],
             volatility        |-> IF k - RollingWindow + 1 >= 2
                                   THEN PdStd(SubSeq(returns, k - RollingWindow + 1, k))
                                   ELSE NaN]]

\* create_adaptive_strategy: the backtest of each regime, kept unless it
\* holds 'error'
CreateAdaptiveStrategy(d, cc) ==
    LET all  == [r \in DOMAIN AdaptiveStrategies |-> BacktestStrategy(d, AdaptiveConfig(cc, r))]
        kept == {r \in DOMAIN AdaptiveStrategies : ~IsError(all[r])}
    IN  [strategies       |-> AdaptiveStrategies,
         backtest_results |-> [r \in kept |-> all[r]]]

\* the report dict, from the two sweeps' returns and the two comparison runs
ReportOf(d, cc, thr, pos, current_result, optimized_result) ==
    [optimization_results |->
        [optimal_profit_threshold |-> thr.optimal,
         optimal_position_size    |-> pos.optimal,
         threshold_analysis       |-> thr.df_results,
         position_size_analysis   |-> pos.df_results],
     adaptive_strategy |-> CreateAdaptiveStrategy(d, cc),
     performance_comparison |->
        [current_strategy   |-> current_result,
         optimized_strategy |-> optimized_result],
     key_improvements |->
        [profit_increase    |-> DictGet(optimized_result, "total_profit", 0)
                                  - DictGet(current_result, "total_profit", 0),
         sharpe_improvement |-> DictGet(optimized_result, "sharpe_ratio", 0)
                                  - DictGet(current_result, "sharpe_ratio", 0),
         trade_efficiency   |->
             FDiv(Fin(DictGet(optimized_result, "avg_profit_per_trade", 0), 1),
                  Fin(DictGet(current_result, "avg_profit_per_trade", 1), 1))]]

\* generate_performance_report: [raised, report]
GeneratePerformanceReport(d, cc) ==
    CHOOSE r \in
        {IF thr.raised # "none" THEN [raised |-> thr.raised, report |-> NoResult]
         ELSE IF pos.raised # "none" THEN [raised |-> pos.raised, report |-> NoResult]
         ELSE [raised |-> "none",
               report |-> CHOOSE rep \in
                   {ReportOf(d, cc, thr, pos, cur, opt) :
                       cur \in {BacktestStrategy(d, cc)},
                       opt \in {BacktestStrategy(d,
                                   [cc EXCEPT !.min_profit_threshold = thr.optimal,
                                              !.position_size_pct    = pos.optimal])}} :
                   TRUE] :
            thr \in {OptimizeSweep("threshold", d, cc)},
            pos \in {OptimizeSweep("position", d, cc)}} : TRUE

\* the caller calls create_adaptive_strategy(data)
AdaptiveCall ==
    /\ pc = "idle"
    /\ \E d \in DataSets :
          /\ data' = AddVolatilityColumns(d)
          /\ ret' = CreateAdaptiveStrategy(AddVolatilityColumns(d), current_config)
    /\ pc' = "adaptive_done"
    /\ UNCHANGED <<btVars, rkVars, mcVars, current_config, sweep, grid_i, results, exc>>

\* the caller calls generate_performance_report(data)
ReportCall ==
    /\ pc = "idle"
    /\ \E d \in DataSets :
          /\ LET rep == GeneratePerformanceReport(d, current_config)
             IN  data' = IF rep.raised = "none" THEN AddVolatilityColumns(d) ELSE d
          /\ LET rep == GeneratePerformanceReport(d, current_config)
             IN  /\ ret' = rep.report
                 /\ exc' = rep.raised
                 /\ pc' = IF rep.raised = "none" THEN "report_done" ELSE "raised"
    /\ UNCHANGED <<btVars, rkVars, mcVars, current_config, sweep, grid_i, results>>

NextReport == AdaptiveCall \/ ReportCall

SpecReport == Init /\ [][NextBacktest \/ NextSweep \/ NextReport]_vars

-----------------------------------------------------------------------------
(* Claims about the caller's inputs *)

\* C22: no public operation of the backtester mutates caller-owned inputs:
\* once backtest_strategy, a sweep, create_adaptive_strategy or
\* generate_performance_report has been called, the caller's snapshot data
\* (its columns and values) stays as it was passed, and the optimizer's
\* current_config stays as it was (every grid point works on a copy).
C22_InputsNeverMutated ==
    [][/\ (pc = "idle" /\ pc' # "idle") => data' \in DataSets
       /\ pc # "idle" => data' = data
       /\ (pc # "idle" \/ pc' # "idle") => current_config' = current_config]_vars

\* C22, the part the code keeps: backtest_strategy and the two sweeps leave
\* the snapshots as passed, and no operation writes current_config
C22_BacktestAndSweepsKeepInputs ==
    [][/\ (pc = "idle" /\ pc' \in {"loop", "sweep"}) => data' \in DataSets
       /\ pc # "idle" => data' = data
       /\ (pc # "idle" \/ pc' # "idle") => current_config' = current_config]_vars

-----------------------------------------------------------------------------
(* Claims about the no-trades result *)

\* C6: backtest_strategy returns the explicit no-trades value, without
\* raising, for the empty sequence and for every sequence in which no
\* snapshot qualifies, and both sweeps, create_adaptive_strategy and
\* generate_performance_report never raise on it: the report of such data
\* is complete and its comparison holds the two no-trades values.
C6_NoTradesHandled ==
    /\ exc = "none"
    /\ pc # "raised"
    /\ (pc = "done" /\ trades = <<>>) => DOMAIN result = {"error"}
    /\ (pc = "done" /\ trades # <<>>) => ~IsError(result)
    /\ (pc = "sweep_done" /\ data = <<>>) => ret.df_results.rows = <<>>
    /\ (pc = "adaptive_done" /\ data = <<>>) => DOMAIN ret.backtest_results = {}
    /\ (pc = "report_done" /\ data = <<>>) =>
          /\ IsError(ret.performance_comparison.current_strategy)
          /\ IsError(ret.performance_comparison.optimized_strategy)
          /\ ret.key_improvements.profit_increase = 0
          /\ ret.key_improvements.trade_efficiency = Fin(0, 1)

\* C6 witness: a report finished on data on which the current
\* configuration and every threshold grid point yield no trades while some
\* position sizes do
C6_Witness ==
    /\ pc = "report_done"
    /\ data # <<>>
    /\ IsError(ret.performance_comparison.current_strategy)
    /\ ~IsError(ret.performance_comparison.optimized_strategy)
    /\ ret.optimization_results.threshold_analysis.rows = <<>>
    /\ ret.optimization_results.position_size_analysis.rows # <<>>

\* C6 second case reached: the report of the empty sequence
C6_EmptyReported ==
    /\ pc = "report_done"
    /\ data = <<>>
    /\ ret.optimization_results.threshold_analysis.type = "dict"

-----------------------------------------------------------------------------
(* RiskPortfolioOptimizer: numpy helpers on series of floats *)

\* Python's min(a, b) and max(a, b) on floats: the first argument is kept
\* unless the second compares smaller (greater), so a NaN first argument
\* is returned and a NaN second argument is ignored
PyMin(a, b) == IF FLt(b, a) THEN b ELSE a

PyMax(a, b) == IF FLt(a, b) THEN b ELSE a

\* np.maximum(a, b): NaN if either is NaN
NpMaximum(a, b) == IF IsNaN(a) \/ IsNaN(b) THEN NaN ELSE IF FLt(a, b) THEN b ELSE a

RECURSIVE Insert(_, _)
Insert(x, s) ==
    IF s = <<>> THEN <<x>>
    ELSE IF FLe(x, Head(s)) THEN <<x>> \o s
    ELSE <<Head(s)>> \o Insert(x, Tail(s))

RECURSIVE Sorted(_)
\* the finite series s in ascending order
Sorted(s) == IF s = <<>> THEN <<>> ELSE Insert(Head(s), Sorted(Tail(s)))

\* np.percentile(a, q) with q = 100 * c[1] / c[2], linear interpolation
\* between the two order statistics around the index (n - 1) * q / 100
Percentile(a, c) ==
    IF \E n \in 1..Len(a) : IsNaN(a[n]) THEN NaN
    ELSE LET srt == Sorted(a)
             pos == (Len(a) - 1) * c[1]
             lo  == pos \div c[2]
             g   == Fin(pos - lo * c[2], c[2])
         IN  IF lo + 2 > Len(a) THEN srt[lo + 1]
             ELSE FAdd(srt[lo + 1], FMul(g, FSub(srt[lo + 2], srt[lo + 1])))

\* np.cumprod(1 + returns)
RECURSIVE CumProdFrom(_, _, _)
CumProdFrom(returns, n, acc) ==
    IF n > Len(returns) THEN <<>>
    ELSE CHOOSE r \in {<<cur>> \o CumProdFrom(returns, n + 1, cur) :
                        cur \in {FMul(acc, FAdd(Fin(1, 1), returns[n]))}} : TRUE

CumProd1(returns) == CumProdFrom(returns, 1, Fin(1, 1))

\* np.maximum.accumulate(a)
RECURSIVE MaxAccumulateFrom(_, _, _)
MaxAccumulateFrom(a, n, acc) ==
    IF n > Len(a) THEN <<>>
    ELSE CHOOSE r \in {<<cur>> \o MaxAccumulateFrom(a, n + 1, cur) :
                        cur \in {IF n = 1 THEN a[1] ELSE NpMaximum(acc, a[n])}} : TRUE

MaxAccumulate(a) == MaxAccumulateFrom(a, 1, NaN)

-----------------------------------------------------------------------------
(* calculate_var, calculate_cvar *)

\* calculate_var, the historical method (the parametric and modified
\* values need the normal quantile and are not part of the model)
CalculateVar(returns, confidence_level) ==
    [var_historical   |-> Percentile(returns, confidence_level),
     confidence_level |-> confidence_level]

\* mutant: the observations strictly below the threshold
CalculateCVaRStrict(returns, confidence_level) ==
    LET var == Percentile(returns, confidence_level)
        Below(x) == FLt(x, var)
    IN  FMean(SelectSeq(returns, Below))

\* calculate_cvar: returns[returns <= var].mean()
CalculateCVaR(returns, confidence_level) ==
    LET var == Percentile(returns, confidence_level)
        AtOrBelow(x) == FLe(x, var)
    IN  FMean(SelectSeq(returns, AtOrBelow))

-----------------------------------------------------------------------------
(* calculate_maximum_drawdown, _calculate_drawdown_duration *)

RECURSIVE DurationFrom(_, _, _, _)
\* the for loop of _calculate_drawdown_duration from entry n on
DurationFrom(drawdown, n, duration, max_duration) ==
    IF n > Len(drawdown) THEN max_duration
    ELSE IF FLt(drawdown[n], Fin(0, 1))
         THEN CHOOSE r \in {DurationFrom(drawdown, n + 1, dur, md) :
                              dur \in {duration + 1},
                              md \in {IF duration + 1 > max_duration
                                      THEN duration + 1 ELSE max_duration}} : TRUE
         ELSE CHOOSE r \in {DurationFrom(drawdown, n + 1, 0, md) :
                              md \in {max_duration}} : TRUE

CalculateDrawdownDuration(drawdown) == DurationFrom(drawdown, 1, 0, 0)

\* the drawdown array: (cumulative - running_max) / running_max
DrawdownOfReturns(returns) ==
    LET cumulative  == CumProd1(returns)
        running_max == MaxAccumulate(cumulative)
    IN  [n \in 1..Len(returns) |->
            FDiv(FSub(cumulative[n], running_max[n]), running_max[n])]

\* calculate_maximum_drawdown on a non-empty series.  `container` is how
\* the caller holds the returns: an ndarray, whose min() propagates NaN, or
\* a pandas Series (what pct_change().dropna() gives), whose min() skips NaN.
CalculateMaximumDrawdown(returns, container) ==
    CHOOSE r \in
        {LET Negative(x) == FLt(x, Fin(0, 1))
             neg == SelectSeq(drawdown, Negative)
         IN  [max_drawdown          |-> IF container = "ndarray" THEN NpMin(drawdown)
                                        ELSE PdMin(drawdown),
              max_drawdown_duration |-> CalculateDrawdownDuration(drawdown),
              avg_drawdown          |-> IF Len(neg) > 0 THEN FMean(neg) ELSE Fin(0, 1),
              drawdown_frequency    |-> Fin(Len(neg), Len(drawdown))] :
            drawdown \in {DrawdownOfReturns(returns)}} : TRUE

-----------------------------------------------------------------------------
(* kelly_criterion *)

\* safe_kelly = max(0, min(kelly_fraction * 0.25, 0.15))
ClampKelly(kelly_fraction) ==
    PyMax(Fin(0, 1), PyMin(FMul(kelly_fraction, Fin(1, 4)), Fin(3, 20)))

\* kelly_criterion(win_rate, avg_win, avg_loss).  `numeric` is the type of
\* the arguments: Python floats, whose division by zero raises, or numpy
\* float64 (what Series.mean() gives), whose division by zero gives inf/NaN.
KellyCriterion(win_rate, avg_win, avg_loss, numeric) ==
    IF FEq(avg_loss, Fin(0, 1)) THEN [raised |-> "none", value |-> Fin(0, 1)]
    ELSE LET b == FDiv(avg_win, FAbs(avg_loss))
             p == win_rate
             q == FSub(Fin(1, 1), p)
         IN  IF numeric = "float" /\ FEq(b, Fin(0, 1))
             THEN [raised |-> "ZeroDivisionError", value |-> NaN]
             ELSE [raised |-> "none",
                   value  |-> ClampKelly(FDiv(FSub(FMul(b, p), q), b))]

-----------------------------------------------------------------------------
(* calculate_position_sizing_rules *)

\* Series.pct_change().dropna(): p[n+1] / p[n] - 1, without the leading NaN
\* and without the NaN of 0/0; +-inf entries stay
PctChangeDropNa(profit) ==
    LET NotNaN(x) == ~IsNaN(x)
    IN  SelectSeq([n \in 1..(Len(profit) - 1) |->
                      FSub(FDiv(Fin(profit[n + 1], 1), Fin(profit[n], 1)), Fin(1, 1))],
                  NotNaN)

\* the part of calculate_risk_metrics that the sizing rules read: the call
\* of calculate_maximum_drawdown on the pct_change Series.  With no return
\* left, len(drawdown) is 0 and drawdown_frequency divides 0 by 0.
RiskMetricsOf(returns) ==
    IF Len(returns) = 0 THEN [raised |-> {"ZeroDivisionError", "IndexError"}]
    ELSE CHOOSE r \in
            {[raised          |-> {"none"},
              max_drawdown    |-> dd.max_drawdown,
              max_dd_duration |-> dd.max_drawdown_duration] :
                dd \in {CalculateMaximumDrawdown(returns, "Series")}} : TRUE

\* mutant: the cap of 'recommended' at 0.10 left out
RecommendedUncapped(kelly_size, fixed_fractional, percent_vol_size) ==
    FMean(<<kelly_size, fixed_fractional, percent_vol_size>>)

\* min(np.mean([kelly_size, fixed_fractional, percent_vol_size]), 0.10)
Recommended(kelly_size, fixed_fractional, percent_vol_size) ==
    PyMin(FMean(<<kelly_size, fixed_fractional, percent_vol_size>>), Fin(1, 10))

\* calculate_position_sizing_rules(historical_data), historical_data given
\* by its 'profit' column.  The result names the exceptions the call can
\* end with ({"none"}: it returns `value`).  The Monte Carlo entry is random
\* and is left out.
CalculatePositionSizingRules(profit) ==
    IF Len(profit) = 0 THEN [raised |-> {"ZeroDivisionError"}]
    ELSE CHOOSE r \in
      {LET Win(x)  == x > 0
           Loss(x) == x <= 0
           wins     == SelectSeq(profit, Win)
           losses   == SelectSeq(profit, Loss)
           AsFloat(seq) == [n \in 1..Len(seq) |-> Fin(seq[n], 1)]
           win_rate == Fin(Len(wins), Len(profit))
           avg_win  == IF Len(wins) > 0 THEN FMean(AsFloat(wins)) ELSE Fin(0, 1)
           avg_loss == IF Len(losses) > 0 THEN FMean(AsFloat(losses)) ELSE Fin(0, 1)
           kelly_size       == KellyCriterion(win_rate, avg_win, avg_loss, "float64").value
           fixed_fractional == Fin(2, 100)
           variance         == PdVariance(returns)
           target_volatility == Fin(1, 100)
           percent_vol_size == IF FLt(Fin(0, 1), variance)
                               THEN FDiv(target_volatility, FSqrt(variance))
                               ELSE fixed_fractional
           risk_metrics     == RiskMetricsOf(returns)
       IN  IF risk_metrics.raised # {"none"} THEN [raised |-> risk_metrics.raised]
           ELSE [raised |-> {"none"},
                 value  |->
                   [kelly_criterion    |-> kelly_size,
                    fixed_fractional   |-> fixed_fractional,
                    percent_volatility |-> percent_vol_size,
                    risk_adjusted      |->
                        PyMin(FDiv(fixed_fractional,
                                   PyMax(FAbs(risk_metrics.max_drawdown), Fin(1, 100))),
                              Fin(3, 20)),
                    recommended        |->
                        Recommended(kelly_size, fixed_fractional, percent_vol_size),
                    statistics         |->
                        [win_rate |-> win_rate, avg_win |-> avg_win, avg_loss |-> avg_loss,
                         profit_factor |-> IF ~FEq(avg_loss, Fin(0, 1))
                                           THEN FAbs(FDiv(avg_win, avg_loss))
                                           ELSE PInf]]] :
         returns \in {PctChangeDropNa(profit)}} : TRUE

-----------------------------------------------------------------------------
(* Inputs of the risk functions *)

\* per-period returns: -200%, -100%, -50%, 0, +50%, +100%
ReturnValues == {Fin(0 - 2, 1), Fin(0 - 1, 1), Fin(0 - 1, 2), Fin(0, 1), Fin(1, 2), Fin(1, 1)}

\* non-empty return series
ReturnSeries == SeqsUpTo(ReturnValues, MaxSeries) \ {<<>>}

\* cumulative profit series handed to calculate_max_drawdown
CumulativeSeries == SeqsUpTo({0 - 10, 0 - 5, 0, 5, 10}, MaxSeries) \ {<<>>}

\* confidence levels, as <<numerator, denominator>>: 0, 5%, 25%, 50%, 95%, 100%
ConfidenceLevels == {<<0, 1>>, <<1, 20>>, <<1, 4>>, <<1, 2>>, <<19, 20>>, <<1, 1>>}

\* kelly_criterion arguments
WinRates == {Fin(0, 1), Fin(1, 4), Fin(1, 2), Fin(3, 4), Fin(1, 1)}

AvgWins == {Fin(0, 1), Fin(1, 1), Fin(2, 1), Fin(100, 1)}

AvgLosses == {Fin(0 - 100, 1), Fin(0 - 1, 1), Fin(0, 1), Fin(50, 1)}

\* the 'profit' column of a trade history, empty history included
ProfitValues == {0 - 2, 0, 1, 2, 10, 11}

Histories == SeqsUpTo(ProfitValues, MaxHist)


-----------------------------------------------------------------------------
(* Calls of the risk functions *)

\* length of the longer series handed to calculate_maximum_drawdown
EpisodeLen == 5

\* series long enough to hold two separate drawdown episodes: returns of
\* -50%, -25%, 0 and +100%
EpisodeSeries ==
    {s \in SeqsUpTo({Fin(0 - 1, 2), Fin(0 - 1, 4), Fin(0, 1), Fin(1, 1)}, EpisodeLen) :
        Len(s) = EpisodeLen}

\* calculate_maximum_drawdown(returns)
DrawdownCall ==
    /\ pc = "idle"
    /\ \E r \in ReturnSeries \cup EpisodeSeries, c \in {"ndarray", "Series"} :
          /\ call' = [op |-> "calculate_maximum_drawdown", returns |-> r, container |-> c]
          /\ out' = CalculateMaximumDrawdown(r, c)
    /\ pc' = "risk_done"
    /\ UNCHANGED <<data, btVars, swVars, mcVars>>

\* P2PStrategyOptimizer.calculate_max_drawdown(cumulative_returns)
MaxDrawdownPdCall ==
    /\ pc = "idle"
    /\ \E c \in CumulativeSeries :
          /\ call' = [op |-> "calculate_max_drawdown", cumulative_returns |-> c]
          /\ out' = [max_drawdown |-> CalculateMaxDrawdownPd(c)]
    /\ pc' = "risk_done"
    /\ UNCHANGED <<data, btVars, swVars, mcVars>>

\* calculate_var(returns, c) and calculate_cvar(returns, c) on one series,
\* as calculate_risk_metrics calls them
VarCvarCall ==
    /\ pc = "idle"
    /\ \E r \in ReturnSeries, c \in ConfidenceLevels :
          /\ call' = [op |-> "calculate_cvar", returns |-> r, confidence_level |-> c]
          /\ out' = [var_metrics |-> CalculateVar(r, c), cvar |-> CalculateCVaR(r, c)]
    /\ pc' = "risk_done"
    /\ UNCHANGED <<data, btVars, swVars, mcVars>>

\* kelly_criterion(win_rate, avg_win, avg_loss)
KellyCall ==
    /\ pc = "idle"
    /\ \E p \in WinRates, w \in AvgWins, l \in AvgLosses, t \in {"float", "float64"} :
          /\ call' = [op |-> "kelly_criterion", win_rate |-> p, avg_win |-> w,
                      avg_loss |-> l, numeric |-> t]
          /\ out' = KellyCriterion(p, w, l, t)
    /\ pc' = "risk_done"
    /\ UNCHANGED <<data, btVars, swVars, mcVars>>

\* calculate_position_sizing_rules(historical_data)
SizingCall ==
    /\ pc = "idle"
    /\ \E h \in Histories :
          /\ call' = [op |-> "calculate_position_sizing_rules", profit |-> h]
          /\ \E e \in CalculatePositionSizingRules(h).raised :
                out' = IF e = "none"
                       THEN [raised |-> "none", value |-> CalculatePositionSizingRules(h).value]
                       ELSE [raised |-> e]
    /\ pc' = "risk_done"
    /\ UNCHANGED <<data, btVars, swVars, mcVars>>

NextRisk == DrawdownCall \/ MaxDrawdownPdCall \/ VarCvarCall \/ KellyCall \/ SizingCall

SpecRisk == Init /\ [][NextRisk]_vars

-----------------------------------------------------------------------------
(* calculate_risk_metrics, calculate_risk_adjusted_performance *)

\* self.trading_days, and self.risk_free_rate = 0.06
TradingDays == 252

RiskFreeRate == Fin(6, 100)

\* np.std(a): population standard deviation (ddof = 0); np.std of a pandas
\* Series goes to Series.std(ddof = 0), which gives the same on a series
\* without NaN.  The variance is exact.
NpVariance(s) ==
    IF Len(s) = 0 THEN NaN
    ELSE CHOOSE v \in
            {FDiv(FSum([n \in 1..Len(s) |-> FMul(FSub(s[n], m), FSub(s[n], m))]),
                  Fin(Len(s), 1)) : m \in {FMean(s)}} : TRUE

NpStd(s) == FSqrt(NpVariance(s))

\* Series.mean(): NaN entries are skipped
PdMean(s) ==
    LET NotNaN(x) == ~IsNaN(x)
    IN  FMean(SelectSeq(s, NotNaN))

\* mean_return / np.std(negative) if len(negative) > 0 else 0
Sortino(mean_return, negative) ==
    IF Len(negative) > 0 THEN FDiv(mean_return, NpStd(negative)) ELSE Fin(0, 1)

\* calculate_risk_metrics(returns) on a non-empty series (skewness and
\* kurtosis need fractional powers and are not part of the model)
CalculateRiskMetrics(returns, container) ==
    CHOOSE r \in
      {LET Negative(x)  == FLt(x, Fin(0, 1))
           volatility   == NpStd(returns_annual)
           sharpe_ratio == IF FLt(Fin(0, 1), volatility)
                           THEN FDiv(FSub(mean_return, RiskFreeRate), volatility)
                           ELSE Fin(0, 1)
           var_metrics  == CalculateVar(returns_annual, <<1, 20>>)
           cvar         == CalculateCVaR(returns_annual, <<1, 20>>)
           calmar_ratio == IF ~FEq(dd_metrics.max_drawdown, Fin(0, 1))
                           THEN FAbs(FDiv(mean_return, dd_metrics.max_drawdown))
                           ELSE Fin(0, 1)
       IN  [annual_return   |-> mean_return,
            volatility      |-> volatility,
            sharpe_ratio    |-> sharpe_ratio,
            sortino_ratio   |-> Sortino(mean_return, SelectSeq(returns_annual, Negative)),
            calmar_ratio    |-> calmar_ratio,
            var_95          |-> var_metrics.var_historical,
            cvar_95         |-> cvar,
            max_drawdown    |-> dd_metrics.max_drawdown,
            max_dd_duration |-> dd_metrics.max_drawdown_duration] :
         returns_annual \in {[n \in 1..Len(returns) |-> FMul(returns[n], Fin(TradingDays, 1))]},
         mean_return \in {FMean([n \in 1..Len(returns) |-> FMul(returns[n], Fin(TradingDays, 1))])},
         dd_metrics \in {CalculateMaximumDrawdown(returns, container)}} : TRUE

\* _calculate_ulcer_index(cumulative_returns), cumulative_returns a Series
\* of whole numbers
CalculateUlcerIndex(cumulative_returns) ==
    LET running_max == ExpandingMax(cumulative_returns)
        drawdowns   == [n \in 1..Len(cumulative_returns) |->
                          FMul(FDiv(Fin(cumulative_returns[n] - running_max[n], 1),
                                    Fin(running_max[n], 1)), Fin(100, 1))]
        squared_drawdowns == [n \in 1..Len(drawdowns) |-> FMul(drawdowns[n], drawdowns[n])]
    IN  FSqrt(PdMean(squared_drawdowns))

\* calculate_risk_adjusted_performance(trading_data), trading_data given by
\* its 'profit' column.  The result names the exceptions the call can end
\* with: np.percentile of an empty series is NaN or an IndexError,
\* depending on the numpy release.
CalculateRiskAdjustedPerformance(profit) ==
    CHOOSE r \in
      {LET Gain(x)  == FLt(Fin(0, 1), x)
           Loss(x)  == FLe(x, Fin(0, 1))
           excess_returns == [n \in 1..Len(returns) |->
                                FSub(returns[n], FDiv(RiskFreeRate, Fin(252, 1)))]
           information_ratio == IF FLt(Fin(0, 1), NpStd(excess_returns))
                                THEN FDiv(PdMean(excess_returns), NpStd(excess_returns))
                                ELSE Fin(0, 1)
           gains       == FSum(SelectSeq(returns, Gain))
           losses      == FAbs(FSum(SelectSeq(returns, Loss)))
           omega_ratio == IF FLt(Fin(0, 1), losses) THEN FDiv(gains, losses) ELSE PInf
           tail_ratio  == IF Len(returns) = 0 THEN NaN
                          ELSE FAbs(FDiv(Percentile(returns, <<19, 20>>),
                                         Percentile(returns, <<1, 20>>)))
           martin_ratio == IF FLt(Fin(0, 1), ulcer_index)
                           THEN FDiv(PdMean(returns), ulcer_index)
                           ELSE Fin(0, 1)
       IN  [raised |-> IF Len(returns) = 0 THEN {"none", "IndexError"} ELSE {"none"},
            value  |-> [information_ratio |-> information_ratio,
                        omega_ratio       |-> omega_ratio,
                        tail_ratio        |-> tail_ratio,
                        martin_ratio      |-> martin_ratio,
                        ulcer_index       |-> ulcer_index]] :
         returns \in {PctChangeDropNa(profit)},
         ulcer_index \in {CalculateUlcerIndex(CumSum(profit))}} : TRUE

\* calculate_risk_metrics(returns)
RiskMetricsCall ==
    /\ pc = "idle"
    /\ \E r \in ReturnSeries, c \in {"ndarray", "Series"} :
          /\ call' = [op |-> "calculate_risk_metrics", returns |-> r, container |-> c]
          /\ out' = CalculateRiskMetrics(r, c)
    /\ pc' = "risk_done"
    /\ UNCHANGED <<data, btVars, swVars, mcVars>>

\* calculate_risk_adjusted_performance(trading_data)
PerformanceCall ==
    /\ pc = "idle"
    /\ \E h \in Histories :
          /\ call' = [op |-> "calculate_risk_adjusted_performance", profit |-> h]
          /\ \E e \in CalculateRiskAdjustedPerformance(h).raised :
                out' = IF e = "none"
                       THEN [raised |-> "none",
                             value |-> CalculateRiskAdjustedPerformance(h).value]
                       ELSE [raised |-> e]
    /\ pc' = "risk_done"
    /\ UNCHANGED <<data, btVars, swVars, mcVars>>

NextMetrics == RiskMetricsCall \/ PerformanceCall

SpecMetrics == Init /\ [][NextMetrics]_vars

-----------------------------------------------------------------------------
(* Direct calls of calculate_profit *)

\* prices in INR and quantities in USDT, valid and not
BuyPrices == {0 - 2, 0, 8, 9, 10}

SellPrices == {0 - 1, 0, 9, 10, 12}

Quantities == {0 - 10, 0, 10, 40, 100}

\* calculate_profit(buy_price, sell_price, amount_usdt) called with Python
\* floats: the division of the roi raises when costs['investment'] is 0
CalculateProfitOutcome(buy_price, sell_price, amount_usdt) ==
    IF CalculateTransactionCosts(<<amount_usdt * 100, 1>>, buy_price).investment = 0
    THEN [raised |-> "ZeroDivisionError"]
    ELSE [raised |-> "none",
          value  |-> CalculateProfit(buy_price, sell_price, <<amount_usdt * 100, 1>>)]

ProfitCall ==
    /\ pc = "idle"
    /\ \E b \in BuyPrices, sp \in SellPrices, q \in Quantities :
          /\ call' = [op |-> "calculate_profit", buy_price |-> b, sell_price |-> sp,
                      amount_usdt |-> q]
          /\ out' = CalculateProfitOutcome(b, sp, q)
    /\ pc' = "risk_done"
    /\ UNCHANGED <<data, btVars, swVars, mcVars>>

NextEconomics == ProfitCall

SpecEconomics == Init /\ [][NextEconomics]_vars

-----------------------------------------------------------------------------
(* monte_carlo_portfolio_simulation and numpy's global random generator *)

\* The generator behind np.random.normal, as a congruential generator on
\* 0..63: rng.x is its state (-1 before first use, when the state is taken
\* from the operating system), rng.seed the argument of the caller's last
\* np.random.seed (-1: never seeded).
LcgNext(x) == (13 * x + 7) % 64

\* the standard normal deviate drawn in state x
ZTable == <<0 - 2, 0 - 1, 0 - 1, 0, 0, 1, 1, 3>>

Deviate(x) == ZTable[(x \div 8) + 1]

\* the next n deviates drawn from state x
RECURSIVE McDraws(_, _)
McDraws(x, n) ==
    IF n = 0 THEN <<>>
    ELSE CHOOSE r \in {<<Deviate(nx)>> \o McDraws(nx, n - 1) : nx \in {LcgNext(x)}} : TRUE

\* the state after n draws from state x
RECURSIVE LcgAdvance(_, _)
LcgAdvance(x, n) ==
    IF n = 0 THEN x
    ELSE CHOOSE r \in {LcgAdvance(nx, n - 1) : nx \in {LcgNext(x)}} : TRUE

\* mutant: the 25th and the 75th percentile exchanged
McPercentilesSwapped(final_returns) ==
    [percentile_5  |-> Percentile(final_returns, <<1, 20>>),
     percentile_25 |-> Percentile(final_returns, <<3, 4>>),
     percentile_75 |-> Percentile(final_returns, <<1, 4>>),
     percentile_95 |-> Percentile(final_returns, <<19, 20>>)]

\* np.percentile(final_returns, 5 / 25 / 75 / 95)
McPercentiles(final_returns) ==
    [percentile_5  |-> Percentile(final_returns, <<1, 20>>),
     percentile_25 |-> Percentile(final_returns, <<1, 4>>),
     percentile_75 |-> Percentile(final_returns, <<3, 4>>),
     percentile_95 |-> Percentile(final_returns, <<19, 20>>)]

\* the fraction of the entries that satisfy the comparison: np.mean(mask)
Fraction(hits, total) == FDiv(Fin(hits, 1), Fin(total, 1))

\* monte_carlo_portfolio_simulation(base_returns, n_simulations,
\* time_horizon) with the generator in state x.  np.random.normal fills the
\* (n_simulations, time_horizon) matrix row by row.  The sample of paths is
\* left out of the result.
MonteCarloPortfolioSimulation(base_returns, n_simulations, time_horizon, x) ==
    CHOOSE r \in
      {LET Positive(v) == FLt(Fin(0, 1), v)
           Loss10(v)   == FLt(v, Fin(0 - 1, 10))
           Loss20(v)   == FLt(v, Fin(0 - 2, 10))
           pct         == McPercentiles(final_returns)
       IN  [mean_final_return |-> FMean(final_returns),
            std_final_return  |-> NpStd(final_returns),
            prob_positive     |-> Fraction(Len(SelectSeq(final_returns, Positive)), n_simulations),
            prob_loss_10pct   |-> Fraction(Len(SelectSeq(final_returns, Loss10)), n_simulations),
            prob_loss_20pct   |-> Fraction(Len(SelectSeq(final_returns, Loss20)), n_simulations),
            percentile_5      |-> pct.percentile_5,
            percentile_25     |-> pct.percentile_25,
            percentile_75     |-> pct.percentile_75,
            percentile_95     |-> pct.percentile_95,
            all_final_returns |-> final_returns] :
         final_returns \in
           {LET mean_return == FMean(base_returns)
                std_return  == NpStd(base_returns)
                deviates    == McDraws(x, n_simulations * time_horizon)
                simulated_returns ==
                    [path \in 1..n_simulations |->
                        [t \in 1..time_horizon |->
                            FAdd(mean_return,
                                 FMul(std_return,
                                      Fin(deviates[(path - 1) * time_horizon + t], 1)))]]
            IN  [path \in 1..n_simulations |->
                    FSub(CumProd1(simulated_returns[path])[time_horizon], Fin(1, 1))]}} : TRUE

\* the base return series, numbers of paths and horizons of the calls
McSeries == {<<Fin(0, 1), Fin(1, 2)>>, <<Fin(0 - 1, 2), Fin(1, 2)>>, <<Fin(1, 10), Fin(1, 10)>>}

McPathCounts == {5}

McHorizons == {1, 2}

\* arguments of np.random.seed
Seeds == {1, 2, 42}

\* states the operating system's entropy can give an unseeded generator
EntropyStates == {5, 22, 40}

\* np.random.seed(s), called by the caller of the optimizer
SeedCall ==
    /\ pc \in {"idle", "mc_done"}
    /\ \E sd \in Seeds : rng' = [seed |-> sd, x |-> sd % 64]
    /\ pc' = "seeded"
    /\ UNCHANGED <<data, btVars, swVars, rkVars, mc_log>>

\* monte_carlo_portfolio_simulation(base_returns, n_simulations, time_horizon)
MonteCarloCall ==
    /\ pc \in {"idle", "seeded", "mc_done"}
    /\ Len(mc_log) < MaxCalls
    /\ \E b \in McSeries, n \in McPathCounts, h \in McHorizons,
          x \in (IF rng.x = 0 - 1 THEN EntropyStates ELSE {rng.x}) :
          \E res \in {MonteCarloPortfolioSimulation(b, n, h, x)} :
             /\ call' = [op |-> "monte_carlo_portfolio_simulation", base_returns |-> b,
                         n_simulations |-> n, time_horizon |-> h]
             /\ out' = res
             /\ rng' = [seed |-> rng.seed, x |-> LcgAdvance(x, n * h)]
             /\ mc_log' = Append(mc_log,
                                 [seed |-> rng.seed, state |-> x, base_returns |-> b,
                                  n_simulations |-> n, time_horizon |-> h,
                                  percentiles |-> <<res.percentile_5, res.percentile_25,
                                                    res.percentile_75, res.percentile_95>>])
    /\ pc' = "mc_done"
    /\ UNCHANGED <<data, btVars, swVars>>

NextMonteCarlo == SeedCall \/ MonteCarloCall

SpecMonteCarlo == Init /\ [][NextMonteCarlo]_vars

-----------------------------------------------------------------------------
(* optimize_multi_asset_portfolio *)

\* np.mean(returns_matrix, axis=0)
ColumnMeans(returns_matrix) ==
    [j \in 1..Len(returns_matrix[1]) |->
        FMean([t \in 1..Len(returns_matrix) |-> returns_matrix[t][j]])]

\* np.cov(returns_matrix.T): the sample covariance of the columns (ddof = 1)
NpCov(returns_matrix) ==
    CHOOSE c \in
      {[a \in 1..Len(mu) |-> [j \in 1..Len(mu) |->
           FDiv(FSum([t \in 1..Len(returns_matrix) |->
                        FMul(FSub(returns_matrix[t][a], mu[a]),
                             FSub(returns_matrix[t][j], mu[j]))]),
                Fin(Len(returns_matrix) - 1, 1))]] :
         mu \in {ColumnMeans(returns_matrix)}} : TRUE

\* weights are carried in tenths: the weight vector w stands for w / 10
Weight(w, j) == Fin(w[j], 10)

\* np.dot(weights, expected_returns)
Dot(w, expected_returns) ==
    FSum([j \in 1..Len(expected_returns) |-> FMul(Weight(w, j), expected_returns[j])])

\* portfolio_variance(weights) = w' . cov . w
PortfolioVariance(w, cov_matrix) ==
    FSum([a \in 1..Len(cov_matrix) |->
            FMul(Weight(w, a),
                 FSum([j \in 1..Len(cov_matrix) |-> FMul(cov_matrix[a][j], Weight(w, j))]))])

\* mutant: at most 50% in any single asset
SolverBoundsHalf(n_assets) == [j \in 1..n_assets |-> <<0, 5>>]

\* bounds = ((0, 0.4),) * n_assets, in tenths
SolverBounds(n_assets) == [j \in 1..n_assets |-> <<0, 4>>]

\* the two constraints handed to the solver: np.sum(w) - 1 = 0 and
\* np.dot(w, expected_returns) - risk_tolerance >= 0
SatisfiesConstraints(w, expected_returns, risk_tolerance) ==
    /\ SumSeq(w) = 10
    /\ FLe(risk_tolerance, Dot(w, expected_returns))

\* the weight vectors inside the bounds that satisfy the constraints
FeasibleWeights(expected_returns, risk_tolerance) ==
    LET n_assets == Len(expected_returns)
        bounds   == SolverBounds(n_assets)
        lo       == bounds[1][1]
        hi       == bounds[1][2]
    IN  {w \in [1..n_assets -> lo..hi] :
            SatisfiesConstraints(w, expected_returns, risk_tolerance)}

\* messages of a solve that did not converge
FailureMessages ==
    {"Positive directional derivative for linesearch",
     "Inequality constraints incompatible",
     "Iteration limit reached"}

\* scipy.optimize.minimize(portfolio_variance, method='SLSQP', bounds,
\* constraints): the results the solver can hand back.  A success carries a
\* feasible point of least variance (on the grid of tenths); a solve can
\* end without convergence on any problem, and does so when no point is
\* feasible.
Minimize(returns_matrix, risk_tolerance) ==
    CHOOSE r \in
      {{[success |-> TRUE, x |-> w, message |-> "Optimization terminated successfully"] :
           w \in {v \in feasible :
                    \A u \in feasible :
                       FLe(PortfolioVariance(v, cov_matrix), PortfolioVariance(u, cov_matrix))}}
       \cup {[success |-> FALSE, x |-> [j \in 1..Len(cov_matrix) |-> 0], message |-> m] :
               m \in FailureMessages} :
         cov_matrix \in {NpCov(returns_matrix)},
         feasible \in {FeasibleWeights(ColumnMeans(returns_matrix), risk_tolerance)}} : TRUE

\* optimize_multi_asset_portfolio(returns_matrix, risk_tolerance), for the
\* result `solved` the solver handed back
OptimizeMultiAssetPortfolio(returns_matrix, risk_tolerance, solved) ==
    IF solved.success
    THEN LET optimal_weights  == solved.x
             portfolio_return == Dot(optimal_weights, ColumnMeans(returns_matrix))
             portfolio_risk   == FSqrt(PortfolioVariance(optimal_weights, NpCov(returns_matrix)))
         IN  [weights         |-> optimal_weights,
              expected_return |-> portfolio_return,
              risk            |-> portfolio_risk,
              sharpe_ratio    |-> FDiv(FSub(portfolio_return, RiskFreeRate), portfolio_risk),
              success         |-> TRUE]
    ELSE [success |-> FALSE, message |-> solved.message]

\* returns matrices: MatrixRows observations of 1, 2 or 3 assets
AssetReturns == {Fin(0, 1), Fin(1, 5)}

ReturnsMatrices ==
    UNION {[1..MatrixRows -> [1..n_assets -> AssetReturns]] : n_assets \in {1, 2, 3}}

\* requested target returns (the risk_tolerance argument)
TargetReturns == {Fin(0, 1), Fin(1, 10), Fin(1, 2)}

AllocateCall ==
    /\ pc = "idle"
    /\ \E mat \in ReturnsMatrices, target \in TargetReturns :
          \E solved \in Minimize(mat, target) :
             /\ call' = [op |-> "optimize_multi_asset_portfolio", returns_matrix |-> mat,
                         risk_tolerance |-> target, solver |-> solved]
             /\ out' = [raised |-> "none",
                        value  |-> OptimizeMultiAssetPortfolio(mat, target, solved)]
    /\ pc' = "risk_done"
    /\ UNCHANGED <<data, btVars, swVars, mcVars>>

NextAllocator == AllocateCall

SpecAllocator == Init /\ [][NextAllocator]_vars

-----------------------------------------------------------------------------
(* stress_test_portfolio *)

\* the `scenarios` dict, in insertion order
Scenarios ==
    <<[name  |-> "market_crash",
       entry |-> [description |-> "2008-style market crash (30% drop)",
                  shock |-> Fin(0 - 30, 100), days |-> 30]],
      [name  |-> "volatility_spike",
       entry |-> [description |-> "Volatility doubles for 2 weeks",
                  vol_multiplier |-> Fin(2, 1), days |-> 14]],
      [name  |-> "liquidity_crisis",
       entry |-> [description |-> "Liquidity dries up (wider spreads)",
                  spread_increase |-> Fin(5, 1000), days |-> 7]],
      [name  |-> "regulatory_shock",
       entry |-> [description |-> "Sudden regulatory change",
                  shock |-> Fin(0 - 15, 100), days |-> 1]]>>

\* base_portfolio_value = 100000
BasePortfolioValue == Fin(100000, 1)

\* the body of the for loop: stress_results after the scenario is handled
StressIteration(stress_results, scenario_name, scenario, returns) ==
    IF "shock" \in DOMAIN scenario
    THEN stress_results @@
         (scenario_name :>
            [immediate_loss         |-> scenario.shock,
             portfolio_value        |-> FMul(BasePortfolioValue, FAdd(Fin(1, 1), scenario.shock)),
             recovery_estimate_days |-> scenario.days,
             probability_estimate   |-> Fin(5, 100)])
    ELSE IF "vol_multiplier" \in DOMAIN scenario
    THEN stress_results @@
         (scenario_name :>
            [new_volatility |-> FMul(NpStd(returns), scenario.vol_multiplier),
             stressed_var   |-> FMul(Percentile(returns, <<1, 20>>), scenario.vol_multiplier),
             risk_increase  |-> FSub(scenario.vol_multiplier, Fin(1, 1))])
    ELSE stress_results

\* stress_test_portfolio(returns): scenarios and stress_results = {} are set up
StressCall ==
    /\ pc = "idle"
    /\ \E r \in ReturnSeries :
          call' = [op |-> "stress_test_portfolio", returns |-> r, handled |-> 0]
    /\ out' = <<>>
    /\ pc' = "stress_loop"
    /\ UNCHANGED <<data, btVars, swVars, mcVars>>

\* one iteration of `for scenario_name, scenario in scenarios.items()`
StressStep ==
    /\ pc = "stress_loop"
    /\ call.handled < Len(Scenarios)
    /\ out' = StressIteration(out, Scenarios[call.handled + 1].name,
                              Scenarios[call.handled + 1].entry, call.returns)
    /\ call' = [call EXCEPT !.handled = @ + 1]
    /\ UNCHANGED <<pc, data, btVars, swVars, mcVars>>

\* return stress_results
StressReturn ==
    /\ pc = "stress_loop"
    /\ call.handled = Len(Scenarios)
    /\ pc' = "risk_done"
    /\ UNCHANGED <<data, btVars, swVars, rkVars, mcVars>>

NextStress == StressCall \/ StressStep \/ StressReturn

SpecStress == Init /\ [][NextStress]_vars

-----------------------------------------------------------------------------
(* generate_risk_report *)

\* stress_test_portfolio(returns) as a function: the loop over the first n
\* scenarios
RECURSIVE StressTestPortfolio(_, _)
StressTestPortfolio(returns, n) ==
    IF n = 0 THEN <<>>
    ELSE StressIteration(StressTestPortfolio(returns, n - 1),
                         Scenarios[n].name, Scenarios[n].entry, returns)

\* stats.skew(returns_annual) by its contract, as the side of -1 and 1 the
\* value lies on: NaN for a series without spread or with an infinite entry,
\* 0 for two different values, any value for a longer series
SkewClasses(returns) ==
    IF \/ \E n \in 1..Len(returns) : ~IsFin(returns[n])
       \/ \A n \in 1..Len(returns) : FEq(returns[n], returns[1])
    THEN {"nan"}
    ELSE IF Len(returns) = 2 THEN {"within"}
    ELSE {"below", "within", "above"}

\* the advisory texts of _generate_risk_recommendations
LowSharpe       == "Low Sharpe ratio - consider improving strategy selectivity or reducing costs"
ExcellentSharpe == "Excellent Sharpe ratio - strategy shows strong risk-adjusted returns"
HighDrawdown    == "High maximum drawdown (>15%) - implement stricter position sizing"
ConservativeSizing == "Very conservative position sizing recommended due to high strategy risk"
LargeSizes      == "Large position sizes detected - ensure adequate risk management"
NegativeSkew    == "Negative skew detected - strategy prone to large losses"
PositiveSkew    == "Positive skew - strategy tends toward large wins"
HighVolatility  == "High volatility - consider reducing position sizes or improving timing"

\* _generate_risk_recommendations(risk_metrics, position_rules); `skew` is
\* the side of -1 and 1 that risk_metrics['skewness'] lies on
GenerateRiskRecommendations(risk_metrics, position_rules, skew) ==
    LET recommended_size == position_rules.recommended
    IN  (IF FLt(risk_metrics.sharpe_ratio, Fin(1, 1)) THEN <<LowSharpe>>
         ELSE IF FLt(Fin(2, 1), risk_metrics.sharpe_ratio) THEN <<ExcellentSharpe>>
         ELSE <<>>)
        \o (IF FLt(Fin(15, 100), FAbs(risk_metrics.max_drawdown)) THEN <<HighDrawdown>>
            ELSE <<>>)
        \o (IF FLt(recommended_size, Fin(5, 100)) THEN <<ConservativeSizing>>
            ELSE IF FLt(Fin(10, 100), recommended_size) THEN <<LargeSizes>>
            ELSE <<>>)
        \o (IF skew = "below" THEN <<NegativeSkew>>
            ELSE IF skew = "above" THEN <<PositiveSkew>>
            ELSE <<>>)
        \o (IF FLt(Fin(30, 100), risk_metrics.volatility) THEN <<HighVolatility>>
            ELSE <<>>)

\* generate_risk_report(trading_data), trading_data given by its 'profit'
\* column.  The result names the exceptions the call can end with and, for
\* each side the skewness can lie on, the report returned.  The Monte Carlo
\* entry is random and is left out.
GenerateRiskReport(profit) ==
    CHOOSE r \in
      {IF Len(returns) = 0 THEN [raised |-> {"ZeroDivisionError", "IndexError"}]
       ELSE IF position_rules.raised # {"none"} THEN [raised |-> position_rules.raised]
       ELSE [raised  |-> {"none"},
             reports |->
               [skew \in SkewClasses(returns) |->
                  [risk_metrics    |-> risk_metrics,
                   position_sizing |-> position_rules.value,
                   stress_tests    |-> StressTestPortfolio(returns, Len(Scenarios)),
                   risk_adjusted_performance |->
                       CalculateRiskAdjustedPerformance(profit).value,
                   recommendations |->
                       GenerateRiskRecommendations(risk_metrics, position_rules.value,
                                                   skew)]]] :
         returns \in {PctChangeDropNa(profit)},
         risk_metrics \in {IF PctChangeDropNa(profit) = <<>> THEN <<>>
                           ELSE CalculateRiskMetrics(PctChangeDropNa(profit), "Series")},
         position_rules \in {CalculatePositionSizingRules(profit)}} : TRUE

\* trade histories with nearly equal consecutive profits
SteadyHistories == {<<20, 21, 22>>, <<20, 21, 21>>}

\* generate_risk_report(trading_data)
RiskReportCall ==
    /\ pc = "idle"
    /\ \E h \in Histories \cup SteadyHistories :
          /\ call' = [op |-> "generate_risk_report", profit |-> h]
          /\ \E e \in GenerateRiskReport(h).raised :
                IF e = "none"
                THEN \E skew \in DOMAIN GenerateRiskReport(h).reports :
                        out' = [raised |-> "none", value |-> GenerateRiskReport(h).reports[skew]]
                ELSE out' = [raised |-> e]
    /\ pc' = "risk_done"
    /\ UNCHANGED <<data, btVars, swVars, mcVars>>

NextRiskReport == RiskReportCall

SpecRiskReport == Init /\ [][NextRiskReport]_vars

-----------------------------------------------------------------------------
(* The grid evaluations of a sweep run by concurrent workers *)

\* the workers that evaluate grid points at the same time
Workers == {"w1", "w2"}

\* mutant: one configuration dict shared by the workers, holding the value
\* written by the grid point that started last
SharedGridConfig(kind, cc, v, last) == GridConfig(kind, cc, last)

\* the configuration the backtest of a grid point reads: the copy made for
\* that grid point (config = self.current_config.copy(); config[key] = value;
\* self.backtest_strategy(data, config))
EvaluationConfig(kind, cc, v, last) == GridConfig(kind, cc, v)

RECURSIVE AggregateFrom(_, _, _, _)
\* the body of the sweep's loop after the backtest, applied to the finished
\* evaluations in grid order from grid point n on: [raised, results]
AggregateFrom(kind, finished, rows, n) ==
    IF n > Len(Grid(kind)) THEN [raised |-> "none", results |-> rows]
    ELSE IF ~SweepAccepts(finished[n]) THEN AggregateFrom(kind, finished, rows, n + 1)
    ELSE IF RaisesKeyError(finished[n], RowKeys(kind))
         THEN [raised |-> "KeyError", results |-> rows]
    ELSE AggregateFrom(kind, finished,
                       Append(rows, SweepRow(kind, Grid(kind)[n], finished[n])), n + 1)

\* a sweep is started on time-ordered snapshots; no grid point has started
ConcurrentSweepCall ==
    /\ pc = "idle"
    /\ \E d \in {f \in DataSets : TimestampsOrdered(f)} : data' = d
    /\ \E kind \in {"threshold", "position"} :
          call' = [op |-> "concurrent_sweep", kind |-> kind, submitted |-> 0,
                   running |-> {}, last |-> 0, overtaken |-> FALSE]
    /\ out' = <<>>
    /\ pc' = "concurrent"
    /\ UNCHANGED <<btVars, swVars, mcVars>>

\* a free worker takes the next grid point and makes its configuration
GridStart ==
    /\ pc = "concurrent"
    /\ call.submitted < Len(Grid(call.kind))
    /\ Cardinality(call.running) < Cardinality(Workers)
    /\ call' = [call EXCEPT !.submitted = @ + 1,
                            !.running   = @ \cup {call.submitted + 1},
                            !.last      = Grid(call.kind)[call.submitted + 1]]
    /\ UNCHANGED <<pc, data, out, btVars, swVars, mcVars>>

\* a worker finishes the backtest of its grid point, in any order
GridFinish ==
    /\ pc = "concurrent"
    /\ \E n \in call.running :
          /\ out' = out @@
                (n :> BacktestStrategy(data,
                         EvaluationConfig(call.kind, current_config,
                                          Grid(call.kind)[n], call.last)))
          /\ call' = [call EXCEPT !.running   = @ \ {n},
                                  !.overtaken = @ \/ \E m \in call.running : m < n]
    /\ UNCHANGED <<pc, data, btVars, swVars, mcVars>>

\* every grid point has finished: the results are taken in grid order and
\* scored as the sequential sweep scores them
ConcurrentSweepReturn ==
    /\ pc = "concurrent"
    /\ call.submitted = Len(Grid(call.kind))
    /\ call.running = {}
    /\ LET loop == AggregateFrom(call.kind, out, <<>>, 1)
           fin  == IF loop.raised # "none"
                   THEN [raised |-> loop.raised, optimal |-> 0,
                         df_results |-> [type |-> "dict", rows |-> <<>>]]
                   ELSE SweepFinish(call.kind, loop.results)
       IN  /\ ret' = [optimal |-> fin.optimal, df_results |-> fin.df_results]
           /\ exc' = fin.raised
    /\ pc' = "concurrent_done"
    /\ UNCHANGED <<data, btVars, rkVars, mcVars, current_config, sweep, grid_i, results>>

NextConcurrent ==
    SetCurrentConfig \/ ConcurrentSweepCall \/ GridStart \/ GridFinish \/ ConcurrentSweepReturn

SpecConcurrent == Init /\ [][NextConcurrent]_vars

-----------------------------------------------------------------------------
(* The whole program *)

Next == NextBacktest \/ NextSweep \/ NextReport \/ NextRisk \/ NextMetrics
            \/ NextEconomics \/ NextMonteCarlo \/ NextAllocator
            \/ NextStress \/ NextConcurrent \/ NextRiskReport

Spec == Init /\ [][Next]_vars

-----------------------------------------------------------------------------
(* Claims about the risk analytics *)

\* C7: the max_drawdown reported by calculate_maximum_drawdown and by the
\* backtester's calculate_max_drawdown is <= 0 for every series, also with
\* returns below -100% and with a negative running peak.
C7_DrawdownNonPositive ==
    (pc = "risk_done" /\ call.op \in {"calculate_maximum_drawdown", "calculate_max_drawdown"})
        => FLe(out.max_drawdown, Fin(0, 1))

\* C7, the part that holds: a max_drawdown that is a number is <= 0
C7_NonPositiveUnlessNaN ==
    (pc = "risk_done" /\ call.op \in {"calculate_maximum_drawdown", "calculate_max_drawdown"}
        /\ ~IsNaN(out.max_drawdown))
        => FLe(out.max_drawdown, Fin(0, 1))

\* the number of consecutive below-peak periods around period n of a
\* drawdown array (0 when period n is at its peak)
EpisodeLength(drawdown, n) ==
    LET Below(m) == FLt(drawdown[m], Fin(0, 1))
    IN  Cardinality({m \in 1..Len(drawdown) :
                        \A q \in 1..Len(drawdown) :
                            ((m <= q /\ q <= n) \/ (n <= q /\ q <= m)) => Below(q)})

\* C25: the max_drawdown_duration reported by calculate_maximum_drawdown is
\* the duration of the maximum drawdown itself: the number of consecutive
\* below-peak periods of an episode in which the most negative drawdown
\* occurs, also when a shallower episode elsewhere lasts longer.
C25_DurationOfDeepestEpisode ==
    (pc = "risk_done" /\ call.op = "calculate_maximum_drawdown"
        /\ ~IsNaN(NpMin(DrawdownOfReturns(call.returns)))) =>
        \E n \in 1..Len(call.returns) :
            /\ FEq(DrawdownOfReturns(call.returns)[n], out.max_drawdown)
            /\ out.max_drawdown_duration = EpisodeLength(DrawdownOfReturns(call.returns), n)

\* C25, what the code reports: the length of the longest below-peak
\* episode of the series, wherever the deepest drawdown lies
C25_DurationOfLongestEpisode ==
    (pc = "risk_done" /\ call.op = "calculate_maximum_drawdown") =>
        /\ \A n \in 1..Len(call.returns) :
              EpisodeLength(DrawdownOfReturns(call.returns), n) <= out.max_drawdown_duration
        /\ \E n \in 1..Len(call.returns) :
              EpisodeLength(DrawdownOfReturns(call.returns), n) = out.max_drawdown_duration

\* C8: for every non-empty series and confidence level, some observation
\* lies at or below the historical VaR and calculate_cvar <= that VaR.
C8_CVaRAtMostVaR ==
    (pc = "risk_done" /\ call.op = "calculate_cvar") =>
        /\ \E n \in 1..Len(call.returns) :
              FLe(call.returns[n], out.var_metrics.var_historical)
        /\ FLe(out.cvar, out.var_metrics.var_historical)

\* C8 witness: an interpolated VaR strictly between two observations, with
\* the CVaR strictly below it
C8_Witness ==
    /\ pc = "risk_done"
    /\ call.op = "calculate_cvar"
    /\ Len(call.returns) = 3
    /\ \A n \in 1..3 : ~FEq(call.returns[n], out.var_metrics.var_historical)
    /\ FLt(out.cvar, out.var_metrics.var_historical)

\* C9: for every win rate in [0, 1], average win >= 0 and average loss,
\* kelly_criterion returns a value in [0, 0.15] and does not raise.
C9_KellyInRangeNoRaise ==
    (pc = "risk_done" /\ call.op = "kelly_criterion") =>
        /\ out.raised = "none"
        /\ FLe(Fin(0, 1), out.value)
        /\ FLe(out.value, Fin(3, 20))

\* C9, the part that holds: whenever kelly_criterion returns, the value is
\* in [0, 0.15]
C9_KellyInRangeWhenReturned ==
    (pc = "risk_done" /\ call.op = "kelly_criterion" /\ out.raised = "none") =>
        /\ FLe(Fin(0, 1), out.value)
        /\ FLe(out.value, Fin(3, 20))

\* C10: for every trade history, calculate_position_sizing_rules returns a
\* 'recommended' size that is the mean of the Kelly, fixed-fractional and
\* volatility-target sizes capped at 0.10, and lies in [0, 0.10].
C10_RecommendedInRange ==
    (pc = "risk_done" /\ call.op = "calculate_position_sizing_rules") =>
        /\ out.raised = "none"
        /\ LET v == out.value
               blend == FMean(<<v.kelly_criterion, v.fixed_fractional, v.percent_volatility>>)
           IN  /\ v.recommended = (IF FLt(Fin(1, 10), blend) THEN Fin(1, 10) ELSE blend)
               /\ FLe(Fin(0, 1), v.recommended)
               /\ FLe(v.recommended, Fin(1, 10))

\* C10, the part that holds: whenever the call returns, 'recommended' is
\* the capped mean and lies in [0, 0.10]
C10_RecommendedInRangeWhenReturned ==
    (pc = "risk_done" /\ call.op = "calculate_position_sizing_rules"
        /\ out.raised = "none") =>
        LET v == out.value
            blend == FMean(<<v.kelly_criterion, v.fixed_fractional, v.percent_volatility>>)
        IN  /\ v.recommended = (IF FLt(Fin(1, 10), blend) THEN Fin(1, 10) ELSE blend)
            /\ FLe(Fin(0, 1), v.recommended)
            /\ FLe(v.recommended, Fin(1, 10))

\* C11: the 'percent_volatility' size returned by
\* calculate_position_sizing_rules lies in [0, 0.15] for every realized
\* volatility, however small.
C11_PercentVolatilityClamped ==
    (pc = "risk_done" /\ call.op = "calculate_position_sizing_rules"
        /\ out.raised = "none") =>
        /\ FLe(Fin(0, 1), out.value.percent_volatility)
        /\ FLe(out.value.percent_volatility, Fin(3, 20))

\* C11, what the code gives: the size is the fixed 2% when the volatility
\* is not a positive number, and 0.01 / volatility (> 0, with no upper
\* limit) otherwise
C11_PercentVolatilityPositive ==
    (pc = "risk_done" /\ call.op = "calculate_position_sizing_rules"
        /\ out.raised = "none") =>
        FLt(Fin(0, 1), out.value.percent_volatility)

\* C12: whenever the volatility in a ratio's denominator is zero, the ratio
\* is reported as 0: the Sharpe, Sortino and Calmar ratios of
\* calculate_risk_metrics and the information and Martin ratios of
\* calculate_risk_adjusted_performance are never NaN or infinite; a series
\* with one negative return, or with equal negative returns, has Sortino 0.
C12_RatiosFinite ==
    /\ (pc = "risk_done" /\ call.op = "calculate_risk_metrics") =>
          /\ IsFin(out.sharpe_ratio)
          /\ IsFin(out.sortino_ratio)
          /\ IsFin(out.calmar_ratio)
    /\ (pc = "risk_done" /\ call.op = "calculate_risk_adjusted_performance"
          /\ out.raised = "none") =>
          /\ IsFin(out.value.information_ratio)
          /\ IsFin(out.value.martin_ratio)

\* C12, the part that holds: the Sharpe ratio and the information ratio
\* are numbers, 0 when their volatility is not positive
C12_SharpeAndInformationFinite ==
    /\ (pc = "risk_done" /\ call.op = "calculate_risk_metrics") => IsFin(out.sharpe_ratio)
    /\ (pc = "risk_done" /\ call.op = "calculate_risk_adjusted_performance"
          /\ out.raised = "none") => IsFin(out.value.information_ratio)

\* C13: when a trade history has no losses, the Omega ratio and the profit
\* factor are reported as a sentinel and never as a raw infinity.
C13_NoRawInfinity ==
    /\ (pc = "risk_done" /\ call.op = "calculate_risk_adjusted_performance"
          /\ out.raised = "none") => out.value.omega_ratio # PInf
    /\ (pc = "risk_done" /\ call.op = "calculate_position_sizing_rules"
          /\ out.raised = "none") => out.value.statistics.profit_factor # PInf

\* the withdrawal fee in INR (paise) that calculate_transaction_costs adds
WithdrawalFeeOf(buy_price) == ZebpayFees.withdrawal_fee * buy_price * 100

\* C14 as stated: net_profit = net_revenue - total_costs and
\* roi = net_profit / total_costs * 100, total_costs being the full cost.
C14_Original ==
    (pc = "risk_done" /\ call.op = "calculate_profit" /\ out.raised = "none"
        /\ call.buy_price > 0 /\ call.sell_price > 0 /\ call.amount_usdt > 0) =>
        /\ out.value.net_profit = out.value.net_revenue - out.value.total_costs
        /\ out.value.roi = (out.value.net_profit * 10000) \div out.value.total_costs

\* C14 amended: net_profit = net_revenue - total_costs, and roi is
\* net_profit over the purchase plus trading fee (the full cost without the
\* withdrawal fee), times 100.
C14_Amended ==
    (pc = "risk_done" /\ call.op = "calculate_profit" /\ out.raised = "none") =>
        /\ out.value.net_profit = out.value.net_revenue - out.value.total_costs
        /\ out.value.roi = (out.value.net_profit * 10000)
                             \div (out.value.total_costs - WithdrawalFeeOf(call.buy_price))

\* C14 witness: a valid profitable trade whose roi differs from net_profit
\* over total_costs
C14_Witness ==
    /\ pc = "risk_done"
    /\ call.op = "calculate_profit"
    /\ call.buy_price > 0 /\ call.sell_price > 0 /\ call.amount_usdt > 0
    /\ out.raised = "none"
    /\ out.value.profitable
    /\ out.value.roi # (out.value.net_profit * 10000) \div out.value.total_costs

\* C15: calculate_profit fails with InvalidInputError, and returns no
\* result, whenever the buy price, the sell price or the quantity is <= 0.
C15_InvalidInputRejected ==
    (pc = "risk_done" /\ call.op = "calculate_profit"
        /\ (call.buy_price <= 0 \/ call.sell_price <= 0 \/ call.amount_usdt <= 0))
        => out.raised = "InvalidInputError"

\* C15, the part that holds: calculate_profit leaves the optimizer's
\* configuration as it was
C15_NoSideEffect == [][ProfitCall => UNCHANGED current_config]_vars

\* two logged Monte Carlo calls with the same arguments
SameArguments(a, b) ==
    /\ a.base_returns = b.base_returns
    /\ a.n_simulations = b.n_simulations
    /\ a.time_horizon = b.time_horizon

\* C16: two calls of monte_carlo_portfolio_simulation under the same fixed
\* seed, with the same series and the same path and horizon counts, return
\* identical percentiles, also when they are consecutive calls in one
\* process.
C16_ReproducibleUnderSeed ==
    \A m \in 1..Len(mc_log), n \in 1..Len(mc_log) :
        (mc_log[m].seed # 0 - 1 /\ mc_log[m].seed = mc_log[n].seed
            /\ SameArguments(mc_log[m], mc_log[n]))
        => mc_log[m].percentiles = mc_log[n].percentiles

\* C16, the part that holds: two calls that start from the same generator
\* state (np.random.seed(s) right before each call) with the same arguments
\* return identical percentiles
C16_ReproducibleFromSameState ==
    \A m \in 1..Len(mc_log), n \in 1..Len(mc_log) :
        (mc_log[m].state = mc_log[n].state /\ SameArguments(mc_log[m], mc_log[n]))
        => mc_log[m].percentiles = mc_log[n].percentiles

\* C17 as stated: percentile_5 <= percentile_25 <= mean_final_return <=
\* percentile_75 <= percentile_95 for every set of simulated final returns.
C17_Original ==
    (pc = "mc_done") =>
        /\ FLe(out.percentile_5, out.percentile_25)
        /\ FLe(out.percentile_25, out.mean_final_return)
        /\ FLe(out.mean_final_return, out.percentile_75)
        /\ FLe(out.percentile_75, out.percentile_95)

\* C17 amended: percentile_5 <= percentile_25 <= percentile_75 <=
\* percentile_95, and the mean lies between the smallest and the largest
\* simulated final return (it can lie outside the two quartiles).
C17_Amended ==
    (pc = "mc_done") =>
        /\ FLe(out.percentile_5, out.percentile_25)
        /\ FLe(out.percentile_25, out.percentile_75)
        /\ FLe(out.percentile_75, out.percentile_95)
        /\ \E n \in 1..Len(out.all_final_returns) :
              FLe(out.all_final_returns[n], out.mean_final_return)
        /\ \E n \in 1..Len(out.all_final_returns) :
              FLe(out.mean_final_return, out.all_final_returns[n])

\* C17 witness: a simulation whose four percentiles are all different
C17_Witness ==
    /\ pc = "mc_done"
    /\ FLt(out.percentile_5, out.percentile_25)
    /\ FLt(out.percentile_25, out.percentile_75)
    /\ FLt(out.percentile_75, out.percentile_95)

\* C18: when the solver does not converge, optimize_multi_asset_portfolio
\* fails with an AllocationInfeasibleError that carries the solver's
\* message, and hands no weight vector back.
C18_FailureRaises ==
    (pc = "risk_done" /\ call.op = "optimize_multi_asset_portfolio"
        /\ ~call.solver.success) =>
        /\ out.raised = "AllocationInfeasibleError"
        /\ "value" \notin DOMAIN out

\* C18, the part that holds: after a failed solve the returned dict holds
\* no weights and holds the solver's message
C18_NoWeightsOnFailure ==
    (pc = "risk_done" /\ call.op = "optimize_multi_asset_portfolio"
        /\ ~call.solver.success) =>
        /\ "weights" \notin DOMAIN out.value
        /\ out.value.message = call.solver.message

ScenarioNames == {"market_crash", "volatility_spike", "liquidity_crisis", "regulatory_shock"}

\* C20: stress_test_portfolio returns a result for each of the four
\* scenarios, and each result carries the portfolio value or the stressed
\* VaR together with a probability estimate.
C20_EveryScenarioReported ==
    (pc = "risk_done" /\ call.op = "stress_test_portfolio") =>
        /\ DOMAIN out = ScenarioNames
        /\ \A name \in DOMAIN out :
              /\ "portfolio_value" \in DOMAIN out[name] \/ "stressed_var" \in DOMAIN out[name]
              /\ "probability_estimate" \in DOMAIN out[name]

\* C20, what the code gives: results for three scenarios; the two shocks
\* carry portfolio_value and probability_estimate = 0.05, the volatility
\* spike carries stressed_var and no probability
C20_ThreeScenariosReported ==
    (pc = "risk_done" /\ call.op = "stress_test_portfolio") =>
        /\ DOMAIN out = {"market_crash", "volatility_spike", "regulatory_shock"}
        /\ \A name \in {"market_crash", "regulatory_shock"} :
              /\ "portfolio_value" \in DOMAIN out[name]
              /\ out[name].probability_estimate = Fin(5, 100)
        /\ DOMAIN out["volatility_spike"] = {"new_volatility", "stressed_var", "risk_increase"}

\* C23: the grid evaluations of a sweep share no mutable state: run by
\* concurrent workers and finished in any order, with the results taken in
\* grid order, the sweep returns what the sequential sweep returns on the
\* same snapshots: the same optimum (the same tie-break) and the same table.
C23_ConcurrentEqualsSequential ==
    pc = "concurrent_done" =>
        LET seq == OptimizeSweep(call.kind, data, current_config)
        IN  /\ ret = [optimal |-> seq.optimal, df_results |-> seq.df_results]
            /\ exc = seq.raised

\* C23 witness: a finished concurrent sweep in which a later grid point
\* finished before an earlier one, two rows tie at the maximum score and a
\* third row scores less
C23_Witness ==
    /\ pc = "concurrent_done"
    /\ call.overtaken
    /\ \E a, b, c \in 1..Len(ret.df_results.rows) :
          /\ a < b
          /\ ret.df_results.rows[a].row.grid_value = ret.optimal
          /\ FEq(ret.df_results.rows[a].score, ret.df_results.rows[b].score)
          /\ FLt(ret.df_results.rows[c].score, ret.df_results.rows[a].score)

\* C26: after any prefix of the snapshots the capital of a backtest is
\* 100000 plus the profits of the trades emitted so far; every emitted trade
\* has profit > 0, also under a zero or negative min_profit_threshold;
\* capital never decreases during a run and final_capital >= 100000.
C26_CapitalIsStartPlusProfits ==
    [][/\ pc' \in {"loop", "done"} =>
            /\ capital' = 100000 * 100 + SumSeq([a \in 1..Len(trades') |-> trades'[a].profit])
            /\ \A a \in 1..Len(trades') : trades'[a].profit > 0
            /\ capital' >= 100000 * 100
       /\ (pc = "loop" /\ run' = run) => capital' >= capital
       /\ (pc' = "done" /\ ~IsError(result')) =>
            /\ result'.final_capital = capital'
            /\ result'.final_capital >= 100000 * 100]_vars

\* C26 witness: a finished run under a negative threshold that made two
\* trades and passed over a losing snapshot
C26_Witness ==
    /\ pc = "done"
    /\ config.min_profit_threshold < 0
    /\ Len(trades) = 2
    /\ capital > 100000 * 100
    /\ \E n \in 1..Len(data) :
          ProfitAnalysis(data[n], config.max_trade_amount, config).net_profit < 0

\* the grid points of the position sweep from 0.10 on
FromTenPercent == {n \in 1..Len(PositionSizes) : PositionSizes[n] >= 20}

\* C27: in optimize_position_sizing under the default configuration every
\* grid point with position_size_pct >= 0.10 trades 10000 at every snapshot
\* and so gives the same trades, final capital and score; the position size
\* returned is never greater than 0.10.
C27_SizesFromTenPercentAlike ==
    (pc = "sweep_done" /\ sweep = "position" /\ current_config = CurrentConfig) =>
        /\ ret.optimal <= 20
        /\ \A n \in FromTenPercent :
              LET res == BacktestStrategy(data, GridConfig("position", current_config,
                                                           PositionSizes[n]))
              IN  /\ res = BacktestStrategy(data, GridConfig("position", current_config, 20))
                  /\ ~IsError(res) =>
                        \A a \in 1..Len(res.trades_df) :
                            res.trades_df[a].investment = 10000 * 100
        /\ \A a, b \in 1..Len(ReturnedRows) :
              (ReturnedRows[a].row.grid_value >= 20 /\ ReturnedRows[b].row.grid_value >= 20)
                  => /\ ReturnedRows[a].score = ReturnedRows[b].score
                     /\ ReturnedRows[a].row.total_return = ReturnedRows[b].row.total_return

\* C27 witness: a position sweep under the default configuration in which
\* every grid point traded, the two sizes below 0.10 score less than 0.10,
\* and 0.10 is returned ahead of the sizes that tie with it
C27_Witness ==
    /\ pc = "sweep_done"
    /\ sweep = "position"
    /\ current_config = CurrentConfig
    /\ Len(ReturnedRows) = Len(PositionSizes)
    /\ ret.optimal = 20
    /\ FLt(ReturnedRows[2].score, ReturnedRows[3].score)
    /\ FEq(ReturnedRows[3].score, ReturnedRows[Len(PositionSizes)].score)

\* the timestamps and profits of the trades of a backtest result
TradedAt(res) ==
    IF IsError(res) THEN {}
    ELSE {<<res.trades_df[a].timestamp, res.trades_df[a].profit>> :
             a \in 1..Len(res.trades_df)}

\* C28: in optimize_profit_threshold under the default configuration, for
\* thresholds t1 <= t2 of the grid the snapshots that trade at t2 are among
\* those that trade at t1, each with the same profit; total_trades and
\* total_profit do not increase with the threshold.
C28_TradesShrinkWithThreshold ==
    (pc = "sweep_done" /\ sweep = "threshold" /\ current_config = CurrentConfig) =>
        LET runs == [n \in 1..Len(Thresholds) |->
                        BacktestStrategy(data, GridConfig("threshold", current_config,
                                                          Thresholds[n]))]
        IN  /\ \A n \in 1..(Len(Thresholds) - 1) : TradedAt(runs[n + 1]) \subseteq TradedAt(runs[n])
            /\ \A a, b \in 1..Len(ReturnedRows) :
                  a <= b => /\ ReturnedRows[a].row.grid_value <= ReturnedRows[b].row.grid_value
                            /\ ReturnedRows[a].row.total_trades >= ReturnedRows[b].row.total_trades
                            /\ ReturnedRows[a].row.total_profit >= ReturnedRows[b].row.total_profit

\* C28 witness: a threshold sweep under the default configuration in which
\* the highest threshold still trades, on fewer snapshots than the lowest
C28_Witness ==
    /\ pc = "sweep_done"
    /\ sweep = "threshold"
    /\ current_config = CurrentConfig
    /\ Len(ReturnedRows) = Len(Thresholds)
    /\ ReturnedRows[1].row.total_trades > ReturnedRows[Len(Thresholds)].row.total_trades
    /\ ReturnedRows[1].row.total_profit > ReturnedRows[Len(Thresholds)].row.total_profit

\* the advisories of a report returned by generate_risk_report
Advisories == {out.value.recommendations[n] : n \in 1..Len(out.value.recommendations)}

\* C29: in a report returned by generate_risk_report 'recommended' is at
\* most 0.10 when the test of line 462 is reached, so the 'Large position
\* sizes detected' advisory is never among the recommendations; and the two
\* Sharpe advisories are never both among them.
C29_LargeSizesNeverAdvised ==
    (pc = "risk_done" /\ call.op = "generate_risk_report" /\ out.raised = "none") =>
        /\ ~FLt(Fin(10, 100), out.value.position_sizing.recommended)
        /\ LargeSizes \notin Advisories
        /\ ~(LowSharpe \in Advisories /\ ExcellentSharpe \in Advisories)

\* C29 witness: a returned report whose blend of the sizing rules is above
\* 0.10, so that 'recommended' is the cap itself, and which carries a Sharpe
\* advisory
C29_Witness ==
    /\ pc = "risk_done"
    /\ call.op = "generate_risk_report"
    /\ out.raised = "none"
    /\ FEq(out.value.position_sizing.recommended, Fin(10, 100))
    /\ FLt(Fin(10, 100), FMean(<<out.value.position_sizing.kelly_criterion,
                                 out.value.position_sizing.fixed_fractional,
                                 out.value.position_sizing.percent_volatility>>))
    /\ ExcellentSharpe \in Advisories
    /\ LargeSizes \notin Advisories

\* the number of asset columns of the returns matrix of the call
AssetColumns == Len(call.returns_matrix[1])

\* C30: for a returns matrix of fewer than 3 asset columns no weight vector
\* within the bounds [0, 0.4] sums to 1, so optimize_multi_asset_portfolio
\* does not return a successful allocation for 1 or 2 assets.
C30_FewerThanThreeAssetsInfeasible ==
    (pc = "risk_done" /\ call.op = "optimize_multi_asset_portfolio" /\ AssetColumns < 3) =>
        /\ {w \in [1..AssetColumns -> SolverBounds(AssetColumns)[1][1]
                                      ..SolverBounds(AssetColumns)[1][2]] :
               SumSeq(w) = 10} = {}
        /\ FeasibleWeights(ColumnMeans(call.returns_matrix), call.risk_tolerance) = {}
        /\ ~call.solver.success
        /\ ~out.value.success
        /\ DOMAIN out.value = {"success", "message"}

\* C30 witness: a call for two assets with a target return of 0, which every
\* weight vector meets, that came back without success
C30_Witness ==
    /\ pc = "risk_done"
    /\ call.op = "optimize_multi_asset_portfolio"
    /\ AssetColumns = 2
    /\ call.risk_tolerance = Fin(0, 1)
    /\ out.value.success = FALSE
    /\ out.value.message = "Inequality constraints incompatible"

=============================================================================
